---- MODULE Spec2Model ----
(***************************************************************************)
(* Quantitative transaction-analysis pipeline of financial-agent-hackathon *)
(* (agent/profile_builder.py, agent/trend_analyzer.py,                     *)
(* agent/budgeting_expert.py, agent/insight_generator.py,                  *)
(* utils/data_loader.py), the workflow and the per-user loop of main.py,   *)
(* analyze_all_users_data of main_refactored.py and the session of         *)
(* streamlit_app.py.                                                       *)
(*                                                                         *)
(* A Python str is a sequence of one-character strings; a non-ASCII        *)
(* character is the atom naming its code point ("U+00E9").  A missing      *)
(* cell (pandas NaN / None) is the one-element sequence NaN, which no      *)
(* real string equals.                                                     *)
(***************************************************************************)
EXTENDS Integers, Sequences, FiniteSets, TLC

VARIABLES
    category,         \* the category value handed to the classifiers
    bucket,           \* what each map_category copy returned for it
    df,               \* the per-user transactions table (state['transactions_df'])
    pandas_analysis,  \* result of analyze_transactions_with_pandas
    trend_analysis,   \* result of analyze_trends_with_pandas
    budget_baseline,  \* result of create_budget_baseline_with_pandas
    budget_plan,      \* result of generate_budget_for_user
    debit_rows,       \* per stage: the row numbers its debit filter kept
    ledger,           \* the user's rows as they were read from the file
    columns,          \* the column labels of the table that was read
    load,             \* what load_transactions returned
    batch,            \* the loop over the users of run_full_analysis_for_multiple_users
    run,              \* one run of the compiled workflow of main.py: the node
                      \* to run next and the state keys the nodes have written
    all_users,        \* one call of main_refactored.analyze_all_users_data
    file,             \* the path handed to load_transactions and what is there
    session           \* st.session_state of the Streamlit app

vars == <<category, bucket, df, pandas_analysis, trend_analysis,
          budget_baseline, budget_plan, debit_rows, ledger, columns, load, batch, run,
          all_users, file, session>>

\* the state of the callers around the per-user table
apps == <<all_users, file, session>>

\* what the analysis stages and the classifiers leave alone
outside == <<ledger, columns, load, batch, run, apps>>

----------------------------------------------------------------------------
(* Bounds of the model *)

MaxRows == 2

----------------------------------------------------------------------------
(* Python / pandas string primitives *)

NaN == <<"<NaN>">>

UpperCase ==
    <<"A", "B", "C", "D", "E", "F", "G", "H", "I", "J", "K", "L", "M",
      "N", "O", "P", "Q", "R", "S", "T", "U", "V", "W", "X", "Y", "Z", "U+00C9">>

LowerCase ==
    <<"a", "b", "c", "d", "e", "f", "g", "h", "i", "j", "k", "l", "m",
      "n", "o", "p", "q", "r", "s", "t", "u", "v", "w", "x", "y", "z", "U+00E9">>

\* str.lower() on one character
char_lower(c) ==
    IF \E i \in 1..Len(UpperCase) : UpperCase[i] = c
    THEN LowerCase[CHOOSE i \in 1..Len(UpperCase) : UpperCase[i] = c]
    ELSE c

\* str.lower()
str_lower(s) == [i \in 1..Len(s) |-> char_lower(s[i])]

\* str.strip(): drops leading and trailing whitespace
str_strip(s) ==
    LET keep == {i \in 1..Len(s) : s[i] # " "}
    IN  IF keep = {} THEN <<>>
        ELSE LET lo == CHOOSE i \in keep : \A j \in keep : i <= j
                 hi == CHOOSE i \in keep : \A j \in keep : j <= i
             IN  SubSeq(s, lo, hi)

\* Series.str.strip().str.lower() on one cell: a missing cell stays missing
series_str_strip_lower(v) == IF v = NaN THEN NaN ELSE str_lower(str_strip(v))

\* str(cat): a missing cell prints as "nan"
py_str(v) == IF v = NaN THEN <<"n", "a", "n">> ELSE v

\* Python's `sub in s` on strings
str_contains(sub, s) ==
    \E i \in 0..(Len(s) - Len(sub)) : SubSeq(s, i + 1, i + Len(sub)) = sub

\* any(c in cat for c in keywords)
any_in(keywords, cat) == \E k \in 1..Len(keywords) : str_contains(keywords[k], cat)

----------------------------------------------------------------------------
(* Keyword lists *)

kw_groceries == <<"g", "r", "o", "c", "e", "r", "i", "e", "s">>
kw_utilities == <<"u", "t", "i", "l", "i", "t", "i", "e", "s">>
kw_rent == <<"r", "e", "n", "t">>
kw_transport == <<"t", "r", "a", "n", "s", "p", "o", "r", "t">>
kw_bills == <<"b", "i", "l", "l", "s">>
kw_emi == <<"e", "m", "i">>
kw_health == <<"h", "e", "a", "l", "t", "h">>
kw_shopping == <<"s", "h", "o", "p", "p", "i", "n", "g">>
kw_food == <<"f", "o", "o", "d">>
kw_travel == <<"t", "r", "a", "v", "e", "l">>
kw_entertainment == <<"e", "n", "t", "e", "r", "t", "a", "i", "n", "m", "e", "n", "t">>
kw_recharge == <<"r", "e", "c", "h", "a", "r", "g", "e">>
kw_lifestyle == <<"l", "i", "f", "e", "s", "t", "y", "l", "e">>
kw_subscription == <<"s", "u", "b", "s", "c", "r", "i", "p", "t", "i", "o", "n">>

\* budgeting_expert.map_category
baseline_needs ==
    <<kw_groceries, kw_utilities, kw_rent, kw_transport, kw_bills, kw_emi>>
baseline_wants ==
    <<kw_shopping, kw_food, kw_travel, kw_entertainment, kw_recharge, kw_lifestyle>>

\* streamlit_app.create_budget_visualization.map_category
viz_needs ==
    <<kw_groceries, kw_utilities, kw_rent, kw_transport, kw_bills, kw_emi, kw_health>>
viz_wants ==
    <<kw_shopping, kw_food, kw_travel, kw_entertainment, kw_recharge, kw_lifestyle,
      kw_subscription>>

----------------------------------------------------------------------------
(* Category Classifier *)

\* faulty variant: the default branch falls into Wants
map_category_default_wants(cat) ==
    LET c == str_lower(py_str(cat))
    IN  IF any_in(baseline_needs, c) THEN "Needs" ELSE "Wants"

\* budgeting_expert.create_budget_baseline_with_pandas.map_category
map_category(cat) ==
    LET c == str_lower(py_str(cat))
    IN  IF any_in(baseline_needs, c) THEN "Needs"
        ELSE IF any_in(baseline_wants, c) THEN "Wants"
        ELSE "Other"

\* streamlit_app.create_budget_visualization.map_category
viz_map_category(cat) ==
    LET c == str_lower(py_str(cat))
    IN  IF any_in(viz_needs, c) THEN "Needs"
        ELSE IF any_in(viz_wants, c) THEN "Wants"
        ELSE "Other"

----------------------------------------------------------------------------
(* Cells of the transactions table                                          *)
(*   timestamp: [k |-> "date", m, d]  a Timestamp (month m, day d)          *)
(*              [k |-> "datestr", m, d] a string spelling that date         *)
(*              [k |-> "text"]        a string pd.to_datetime cannot parse  *)
(*              [k |-> "nat"]         a missing cell (parses to NaT)        *)
(*   amount:    [k |-> "num",    v]   a number                              *)
(*              [k |-> "numstr", v]   a string spelling the number v        *)
(*              [k |-> "text",   v]   a non-numeric string                  *)
(*              [k |-> "nan",    v]   a missing cell                        *)
(*   month:     a month number >= 1, NaT, or NoColumn before the column     *)
(*              exists                                                      *)

NaT == 0
NoColumn == -1

Date(m, d) == [k |-> "date", m |-> m, d |-> d]
DateStr(m, d) == [k |-> "datestr", m |-> m, d |-> d]
BadDate == [k |-> "text", m |-> 0, d |-> 0]
NoDate == [k |-> "nat", m |-> 0, d |-> 0]

Num(v) == [k |-> "num", v |-> v]
NumStr(v) == [k |-> "numstr", v |-> v]
BadNum == [k |-> "text", v |-> 0]
NoNum == [k |-> "nan", v |-> 0]

s_debit == <<"d", "e", "b", "i", "t">>
s_credit == <<"c", "r", "e", "d", "i", "t">>
s_Debit == <<"D", "e", "b", "i", "t">>
s_DEBIT == <<"D", "E", "B", "I", "T">>
s_debit_padded == <<" ", "d", "e", "b", "i", "t", " ">>
s_Rent == <<"R", "e", "n", "t">>
s_Food == <<"F", "o", "o", "d">>
s_Gifts == <<"G", "i", "f", "t", "s">>
s_Health == <<"H", "e", "a", "l", "t", "h">>
s_shopA == <<"A">>

Row(ts, amt, dir, cat, mer) ==
    [timestamp |-> ts, amount |-> amt, direction |-> dir, category |-> cat,
     merchant_name |-> mer, user_id |-> 1, month |-> NoColumn]

----------------------------------------------------------------------------
(* pandas primitives on columns *)

Idx(t) == 1..Len(t)

\* pd.to_numeric(x, errors='coerce') then .fillna(0), one cell
to_numeric_fillna(a) ==
    IF a.k \in {"num", "numstr"} THEN Num(a.v) ELSE Num(0)

\* faulty variant: the rows whose amount does not parse are dropped
coerce_amount_dropna(t) ==
    LET kept == SelectSeq(t, LAMBDA r : r.amount.k \in {"num", "numstr"})
    IN  [i \in Idx(kept) |-> [kept[i] EXCEPT !.amount = to_numeric_fillna(@)]]

\* df['amount'] = pd.to_numeric(df['amount'], errors='coerce').fillna(0)
coerce_amount(t) == [i \in Idx(t) |-> [t[i] EXCEPT !.amount = to_numeric_fillna(@)]]

\* pd.to_datetime(df['timestamp']) raises when a cell cannot be parsed
to_datetime_raises(t) == \E i \in Idx(t) : t[i].timestamp.k = "text"

\* Series.dt.to_period('M'), one cell: the day is dropped, NaT stays NaT
to_period_M(ts) == IF ts.k = "date" THEN ts.m ELSE NaT

\* pd.to_datetime, one cell that parses
to_datetime(ts) == IF ts.k = "datestr" THEN Date(ts.m, ts.d) ELSE ts

\* faulty variant: only text is parsed, a cell that is already a date is
\* lost on the second pass
prepare_dates_text_only(t) ==
    [i \in Idx(t) |->
        [t[i] EXCEPT !.timestamp = IF @.k = "date" THEN NoDate ELSE to_datetime(@),
                     !.month = IF t[i].timestamp.k = "date" THEN NaT
                               ELSE to_period_M(to_datetime(t[i].timestamp))]]

\* the first two data-preparation assignments of the trend and budget stages
prepare_dates(t) ==
    [i \in Idx(t) |->
        [t[i] EXCEPT !.timestamp = to_datetime(@),
                     !.month = to_period_M(to_datetime(t[i].timestamp))]]

\* the three data-preparation assignments of the trend and budget stages
prepare_time(t) == coerce_amount(prepare_dates(t))

\* boolean-mask selection df[mask]: the kept row numbers, in table order
RECURSIVE mask_rows(_, _, _)
mask_rows(t, keep, i) ==
    IF i > Len(t) THEN <<>>
    ELSE (IF i \in keep THEN <<t[i]>> ELSE <<>>) \o mask_rows(t, keep, i + 1)

\* Series.sum() of the amount column
RECURSIVE sum_amount(_)
sum_amount(t) == IF t = <<>> THEN 0 ELSE Head(t).amount.v + sum_amount(Tail(t))

\* df['direction'].str.strip().str.lower() == 'debit', one cell
is_debit_normalized(dir) == series_str_strip_lower(dir) = s_debit

\* df['direction'] == 'debit', one cell
is_debit_raw(dir) == dir = s_debit

\* code points order the characters of a str
CodePoints ==
    <<" ", "&",
      "A", "B", "C", "D", "E", "F", "G", "H", "I", "J", "K", "L", "M",
      "N", "O", "P", "Q", "R", "S", "T", "U", "V", "W", "X", "Y", "Z",
      "a", "b", "c", "d", "e", "f", "g", "h", "i", "j", "k", "l", "m",
      "n", "o", "p", "q", "r", "s", "t", "u", "v", "w", "x", "y", "z",
      "U+00C9", "U+00E9">>

char_ord(c) == CHOOSE i \in 1..Len(CodePoints) : CodePoints[i] = c

\* Python's a < b on strings
str_lt(a, b) ==
    \E k \in 1..(Len(b)) :
        /\ k <= Len(a) + 1
        /\ \A j \in 1..(k - 1) : a[j] = b[j]
        /\ \/ k = Len(a) + 1
           \/ char_ord(a[k]) < char_ord(b[k])

\* the sorted group keys of groupby(..., sort=True)
RECURSIVE sort_keys(_)
sort_keys(S) ==
    IF S = {} THEN <<>>
    ELSE LET m == CHOOSE x \in S : \A y \in S \ {x} : str_lt(x, y)
         IN  <<m>> \o sort_keys(S \ {m})

\* groupby('category')['amount'].sum(): missing categories are dropped
group_keys(t, col) == {t[i][col] : i \in Idx(t)} \ {NaN}

group_sum(t, col) ==
    [c \in group_keys(t, col) |->
        sum_amount(mask_rows(t, {i \in Idx(t) : t[i][col] = c}, 1))]

\* Series.nlargest(n): descending by value, equal values in index order
RECURSIVE nlargest(_, _, _)
nlargest(n, keys, val) ==
    IF n = 0 \/ keys = <<>> THEN <<>>
    ELSE LET p == CHOOSE i \in Idx(keys) :
                    /\ \A j \in Idx(keys) : val[keys[j]] <= val[keys[i]]
                    /\ \A j \in 1..(i - 1) : val[keys[j]] < val[keys[i]]
         IN  <<keys[p]>> \o
             nlargest(n - 1, [j \in 1..(Len(keys) - 1) |->
                                  IF j < p THEN keys[j] ELSE keys[j + 1]], val)

\* Series.nsmallest(n): ascending by value, equal values in index order
nsmallest(n, keys, val) == nlargest(n, keys, [k \in DOMAIN val |-> 0 - val[k]])

\* Series.unique(): distinct values in order of first appearance
RECURSIVE unique(_)
unique(s) ==
    IF s = <<>> THEN <<>>
    ELSE LET r == unique(SubSeq(s, 1, Len(s) - 1))
             x == s[Len(s)]
         IN  IF \E i \in Idx(r) : r[i] = x THEN r ELSE Append(r, x)

----------------------------------------------------------------------------
(* Python's sorted() on the month keys.  A Period compares False with NaT   *)
(* in either direction, so the result is what list.sort's run detection and *)
(* binary insertion produce for that comparison.                            *)

\* Period.__lt__ (NaT compares False)
period_lt(a, b) == a # NaT /\ b # NaT /\ a < b

\* elementwise == on a Period column (NaT equals nothing)
period_eq(a, b) == a # NaT /\ b # NaT /\ a = b

reverse(s) == [i \in Idx(s) |-> s[Len(s) + 1 - i]]

\* count_run: length of the leading run, descending when a[2] < a[1]
RECURSIVE run_end(_, _, _)
run_end(a, n, desc) ==
    IF n < Len(a) /\ (period_lt(a[n + 1], a[n]) <=> desc)
    THEN run_end(a, n + 1, desc)
    ELSE n

\* binarysort's search for the slot of pivot in a[l+1 .. r]
RECURSIVE insert_pos(_, _, _, _)
insert_pos(a, pivot, l, r) ==
    IF l >= r THEN l
    ELSE LET p == l + ((r - l) \div 2)
         IN  IF period_lt(pivot, a[p + 1])
             THEN insert_pos(a, pivot, l, p)
             ELSE insert_pos(a, pivot, p + 1, r)

RECURSIVE binary_insert(_, _)
binary_insert(a, start) ==
    IF start > Len(a) THEN a
    ELSE LET pivot == a[start]
             l == insert_pos(a, pivot, 0, start - 1)
             b == [i \in Idx(a) |->
                      IF i <= l THEN a[i]
                      ELSE IF i = l + 1 THEN pivot
                      ELSE IF i <= start THEN a[i - 1]
                      ELSE a[i]]
         IN  binary_insert(b, start + 1)

\* sorted(a)
py_sorted(a) ==
    IF Len(a) < 2 THEN a
    ELSE LET desc == period_lt(a[2], a[1])
             n == run_end(a, 2, desc)
             b == IF desc
                  THEN reverse(SubSeq(a, 1, n)) \o SubSeq(a, n + 1, Len(a))
                  ELSE a
         IN  binary_insert(b, n + 1)

----------------------------------------------------------------------------
(* Results.  A rational value is [num, den] with den > 0.                    *)

\* `{}`
EmptyDict == [kind |-> "{}"]

NotRun == [kind |-> "none"]
Raised == [kind |-> "raised"]

Frac(n, d) == [num |-> n, den |-> d]

TopCategories == 5
TopMerchants == 5
TopChanges == 3
BurstSigmas == 3

column(t, col) == [i \in Idx(t) |-> t[i][col]]

\* faulty variant: the summed amount per value in place of the row count
value_amounts(t, col) ==
    [c \in group_keys(t, col) |->
        sum_amount(mask_rows(t, {i \in Idx(t) : t[i][col] = c}, 1))]

\* Series.value_counts(): rows per value, missing values dropped
value_counts(t, col) ==
    [c \in group_keys(t, col) |-> Cardinality({i \in Idx(t) : t[i][col] = c})]

\* the values of a column in order of first appearance, missing values dropped
RECURSIVE drop_nan(_)
drop_nan(s) ==
    IF s = <<>> THEN <<>>
    ELSE (IF Head(s) = NaN THEN <<>> ELSE <<Head(s)>>) \o drop_nan(Tail(s))

----------------------------------------------------------------------------
(* Spending Aggregator: profile_builder.analyze_transactions_with_pandas    *)

\* the rows its debit filter keeps
profile_debit_mask(t) == {i \in Idx(t) : is_debit_normalized(t[i].direction)}

profile_numbers(debit) ==
    [kind |-> "analysis",
     category_spending |-> group_sum(debit, "category"),
     top_spending_categories |->
         nlargest(TopCategories, sort_keys(group_keys(debit, "category")),
                  group_sum(debit, "category")),
     top_merchants_by_frequency |->
         nlargest(TopMerchants, unique(drop_nan(column(debit, "merchant_name"))),
                  value_counts(debit, "merchant_name")),
     total_spending |-> sum_amount(debit),
     total_transactions |-> Len(debit),
     average_transaction_amount |-> Frac(sum_amount(debit), Len(debit)),
     unique_merchants |-> Cardinality(group_keys(debit, "merchant_name"))]

\* faulty variant: the empty-set guard is missing, the mean divides by zero rows
analyze_transactions_unguarded(t) ==
    profile_numbers(mask_rows(t, profile_debit_mask(t), 1))

\* t is the table after the amount coercion
analyze_transactions_with_pandas(t) ==
    LET debit_transactions == mask_rows(t, profile_debit_mask(t), 1)
    IN  IF debit_transactions = <<>>
        THEN [kind |-> "summary",
              summary |-> "This user has no spending (debit) transactions to analyze."]
        ELSE profile_numbers(debit_transactions)

----------------------------------------------------------------------------
(* Trend Engine: trend_analyzer.analyze_trends_with_pandas                  *)

trend_debit_mask(t) == {i \in Idx(t) : is_debit_raw(t[i].direction)}

\* months = sorted(debit_df['month'].unique())
trend_months(debit_df) == py_sorted(unique(column(debit_df, "month")))

rows_of_month(debit_df, m) ==
    mask_rows(debit_df, {i \in Idx(debit_df) : period_eq(debit_df[i].month, m)}, 1)

\* ((last - prev) / prev) * 100 if prev > 0 else 0
total_spend_change_pct(last_month_total, prev_month_total) ==
    IF prev_month_total > 0
    THEN Frac((last_month_total - prev_month_total) * 100, prev_month_total)
    ELSE Frac(0, 1)

\* faulty variant: an inner join, a category absent from one month is dropped
category_comparison_inner(last_month_data, prev_month_data) ==
    LET last_c == group_sum(last_month_data, "category")
        prev_c == group_sum(prev_month_data, "category")
    IN  [c \in (DOMAIN last_c) \cap (DOMAIN prev_c) |->
            [last_month |-> last_c[c], prev_month |-> prev_c[c],
             change |-> last_c[c] - prev_c[c]]]

\* the outer join of the two per-category sums, missing side filled with 0
category_comparison(last_month_data, prev_month_data) ==
    LET last_c == group_sum(last_month_data, "category")
        prev_c == group_sum(prev_month_data, "category")
        l(c) == IF c \in DOMAIN last_c THEN last_c[c] ELSE 0
        p(c) == IF c \in DOMAIN prev_c THEN prev_c[c] ELSE 0
    IN  [c \in (DOMAIN last_c) \cup (DOMAIN prev_c) |->
            [last_month |-> l(c), prev_month |-> p(c), change |-> l(c) - p(c)]]

RECURSIVE gcd(_, _)
gcd(a, b) == IF b = 0 THEN a ELSE gcd(b, a % b)

abs(x) == IF x < 0 THEN 0 - x ELSE x

\* the greatest common divisor of the amounts (1 when all are 0): mean and
\* std scale with it, the comparison with the threshold does not depend on it
RECURSIVE amount_unit(_)
amount_unit(t) ==
    IF t = <<>> THEN 0 ELSE gcd(abs(Head(t).amount.v), amount_unit(Tail(t)))

\* the sum over the rows of (n*x - total)^2, x counted in units of u
RECURSIVE sum_sq_dev(_, _, _, _)
sum_sq_dev(t, n, total, u) ==
    IF t = <<>> THEN 0
    ELSE (n * (Head(t).amount.v \div u) - total) * (n * (Head(t).amount.v \div u) - total)
         + sum_sq_dev(Tail(t), n, total, u)

\* amount > mean + 3 * std (std with divisor N-1), over the integers:
\* with e = n*amount - total, e > 0 and e^2 * (n-1) > 9 * sum (n*x - total)^2
exceeds_burst_threshold(amount, debit_df) ==
    LET n == Len(debit_df)
        u == IF amount_unit(debit_df) = 0 THEN 1 ELSE amount_unit(debit_df)
        total == sum_amount(debit_df) \div u
        e == n * (amount \div u) - total
    IN  /\ n > 1
        /\ e > 0
        /\ e * e * (n - 1) > BurstSigmas * BurstSigmas * sum_sq_dev(debit_df, n, total, u)

\* faulty variant: mean and std taken over the last month only
burst_transactions_last_month_stats(last_month_data, debit_df) ==
    mask_rows(last_month_data,
              {i \in Idx(last_month_data) :
                  exceeds_burst_threshold(last_month_data[i].amount.v, last_month_data)}, 1)

burst_transactions(last_month_data, debit_df) ==
    mask_rows(last_month_data,
              {i \in Idx(last_month_data) :
                  exceeds_burst_threshold(last_month_data[i].amount.v, debit_df)}, 1)

\* faulty variant: an empty selection is printed as a table like any other
burst_report_always_table(bursts) == [text |-> "to_string", rows |-> bursts]

\* "No significant burst spending detected." if burst_transactions.empty
\* else the table of the selected rows
burst_report(bursts) ==
    IF bursts = <<>>
    THEN [text |-> "No significant burst spending detected.", rows |-> <<>>]
    ELSE [text |-> "to_string", rows |-> bursts]

\* t is the table after the data preparation
analyze_trends_with_pandas(t) ==
    LET debit_df == mask_rows(t, trend_debit_mask(t), 1)
        months == trend_months(debit_df)
    IN  IF Len(months) < 2
        THEN [kind |-> "trend_summary",
              trend_summary |-> "Not enough data for a month-on-month comparison."]
        ELSE
        LET last_month_period == months[Len(months)]
            prev_month_period == months[Len(months) - 1]
            last_month_data == rows_of_month(debit_df, last_month_period)
            prev_month_data == rows_of_month(debit_df, prev_month_period)
            last_month_total == sum_amount(last_month_data)
            prev_month_total == sum_amount(prev_month_data)
            comparison == category_comparison(last_month_data, prev_month_data)
            change == [c \in DOMAIN comparison |-> comparison[c].change]
            bursts == burst_transactions(last_month_data, debit_df)
        IN  \* NaT.strftime raises
            IF last_month_period = NaT \/ prev_month_period = NaT
            THEN Raised
            ELSE [kind |-> "analysis",
                  last_month |-> last_month_period,
                  prev_month |-> prev_month_period,
                  last_month_total |-> last_month_total,
                  prev_month_total |-> prev_month_total,
                  total_spend_change_pct |->
                      total_spend_change_pct(last_month_total, prev_month_total),
                  category_comparison |-> comparison,
                  top_category_increases |->
                      nlargest(TopChanges, sort_keys(DOMAIN change), change),
                  top_category_decreases |->
                      nsmallest(TopChanges, sort_keys(DOMAIN change), change),
                  burst_transactions_report |-> burst_report(bursts)]

----------------------------------------------------------------------------
(* Budget Baseline Engine: budgeting_expert.create_budget_baseline_with_pandas *)

budget_debit_mask(t) == {i \in Idx(t) : is_debit_raw(t[i].direction)}

\* groupby(['month', 'budget_category']) drops the rows whose month is NaT
budget_months(debit_df) == {debit_df[i].month : i \in Idx(debit_df)} \ {NaT}

\* the month x bucket matrix after unstack(fill_value=0)
monthly_spend(debit_df) ==
    LET grouped == {i \in Idx(debit_df) : debit_df[i].month # NaT}
        buckets == {map_category(debit_df[i].category) : i \in grouped}
    IN  [m \in budget_months(debit_df) |->
            [b \in buckets |->
                sum_amount(mask_rows(debit_df,
                    {i \in grouped : /\ debit_df[i].month = m
                                     /\ map_category(debit_df[i].category) = b}, 1))]]

RECURSIVE sum_over(_, _)
sum_over(f, S) ==
    IF S = {} THEN 0
    ELSE LET x == CHOOSE y \in S : TRUE IN f[x] + sum_over(f, S \ {x})

\* faulty variant: a month without spend in the bucket is left out of its mean
avg_monthly_spend_skip_missing(matrix) ==
    LET months == DOMAIN matrix
        buckets == UNION {DOMAIN matrix[m] : m \in months}
    IN  [b \in buckets |->
            Frac(sum_over([m \in months |-> matrix[m][b]], months),
                 Cardinality({m \in months : matrix[m][b] # 0}))]

\* monthly_spend.mean(): per bucket column, the mean over the month rows
avg_monthly_spend(matrix) ==
    LET months == DOMAIN matrix
        buckets == UNION {DOMAIN matrix[m] : m \in months}
    IN  [b \in buckets |->
            Frac(sum_over([m \in months |-> matrix[m][b]], months),
                 Cardinality(months))]

\* avg_monthly_spend.get(bucket, 0)
avg_get(avg, b) == IF b \in DOMAIN avg THEN avg[b] ELSE Frac(0, 1)

\* faulty variant: the total leaves out the Other column
avg_sum_needs_wants(avg) ==
    IF DOMAIN avg = {} THEN Frac(0, 1)
    ELSE Frac(sum_over([b \in DOMAIN avg |-> avg[b].num], DOMAIN avg \ {"Other"}),
              avg[CHOOSE b \in DOMAIN avg : TRUE].den)

\* avg_monthly_spend.sum(): the averages share the divisor
avg_sum(avg) ==
    IF DOMAIN avg = {} THEN Frac(0, 1)
    ELSE Frac(sum_over([b \in DOMAIN avg |-> avg[b].num], DOMAIN avg),
              avg[CHOOSE b \in DOMAIN avg : TRUE].den)

\* f"{x:,.2f}": the number of hundredths nearest to x, a tie going to the even
\* one (the float is rounded correctly to two decimals)
format_2f(x) ==
    LET q == (x.num * 100) \div x.den
        r == (x.num * 100) % x.den
    IN  IF 2 * r < x.den THEN q
        ELSE IF 2 * r > x.den THEN q + 1
        ELSE IF q % 2 = 0 THEN q ELSE q + 1

\* t is the table after the data preparation; the four values of the returned
\* dict are formatted, avg_monthly_spend and total_avg_spend are the locals
\* they are formatted from
create_budget_baseline_with_pandas(t) ==
    LET debit_df == mask_rows(t, budget_debit_mask(t), 1)
        avg == avg_monthly_spend(monthly_spend(debit_df))
    IN  [kind |-> "baseline",
         avg_monthly_spend |-> [b \in {"Needs", "Wants", "Other"} |-> avg_get(avg, b)],
         total_avg_spend |-> avg_sum(avg),
         avg_monthly_spend_needs |-> format_2f(avg_get(avg, "Needs")),
         avg_monthly_spend_wants |-> format_2f(avg_get(avg, "Wants")),
         avg_monthly_spend_other |-> format_2f(avg_get(avg, "Other")),
         total_avg_monthly_spend |-> format_2f(avg_sum(avg))]

\* `'summary' in baseline`
has_summary_key(baseline) == baseline.kind = "summary"

\* streamlit_app.generate_budget_for_user, given what the baseline call did
\* and what the text-generation call returned
generate_budget_for_user(t, baseline, llm) ==
    IF t = <<>> THEN [kind |-> "message", text |-> "No transaction data available"]
    ELSE IF baseline.kind = "raised"
    THEN [kind |-> "message", text |-> "Error generating budget plan"]
    ELSE IF has_summary_key(baseline)
    THEN [kind |-> "message", text |-> "summary"]
    ELSE [kind |-> "plan", text |-> llm]

LlmOutcomes == {"completion", "An error occurred with the OpenAI API"}

----------------------------------------------------------------------------
(* Operations *)

\* os.path.splitext(file_path)[1]: from the last dot of the last path
\* component, unless only dots come before it there
file_extension(p) ==
    LET seps == {i \in Idx(p) : p[i] = "/"}
        sepIndex == IF seps = {} THEN 0 ELSE CHOOSE i \in seps : \A j \in seps : j <= i
        dots == {i \in Idx(p) : p[i] = "." /\ i > sepIndex}
        dotIndex == IF dots = {} THEN 0 ELSE CHOOSE i \in dots : \A j \in dots : j <= i
    IN  IF dotIndex > 0 /\ \E i \in (sepIndex + 1)..(dotIndex - 1) : p[i] # "."
        THEN SubSeq(p, dotIndex, Len(p))
        ELSE <<>>

s_xlsx == <<".", "x", "l", "s", "x">>
s_xls == <<".", "x", "l", "s">>
s_csv == <<".", "c", "s", "v">>

\* the body of the try block: what it returns or which exception it raises
load_transactions_try(f, labels) ==
    IF f.no_path THEN "TypeError"
    ELSE IF str_lower(file_extension(f.file_path)) \notin {s_xlsx, s_xls, s_csv} THEN "None"
    ELSE IF ~f.found THEN "FileNotFoundError"
    ELSE IF ~f.reads THEN "Exception"
    ELSE IF "user_id" \notin labels THEN "None"
    ELSE "table"

\* faulty variant: only the missing file is caught
load_transactions_one_handler(f, labels) ==
    LET outcome == load_transactions_try(f, labels)
    IN  IF outcome = "FileNotFoundError" THEN "None"
        ELSE IF outcome \in {"TypeError", "Exception"} THEN "raised"
        ELSE outcome

\* load_transactions: `except FileNotFoundError` and `except Exception` both
\* return None
load_transactions(f, labels) ==
    LET outcome == load_transactions_try(f, labels)
    IN  IF outcome \in {"FileNotFoundError", "TypeError", "Exception"} THEN "None"
        ELSE outcome

\* utils.data_loader.load_transactions: the one column it checks is user_id
LoadTransactions ==
    /\ load = "unread"
    /\ load' = load_transactions(file, columns)
    /\ UNCHANGED <<category, bucket, df, pandas_analysis, trend_analysis, budget_baseline,
                   budget_plan, debit_rows, ledger, columns, batch, run, apps>>

\* df[label] raises KeyError when the table has no such column
key_error(labels) == ~(labels \subseteq columns)

\* main.pandas_analysis_node: the amount column is coerced in place; the
\* category and merchant columns are read after the empty-debit return
PandasAnalysisCall ==
    IF key_error({"amount"})
    THEN /\ pandas_analysis' = Raised
         /\ UNCHANGED <<df, debit_rows>>
    ELSE /\ df' = coerce_amount(df)
         /\ IF key_error({"direction"})
            THEN /\ pandas_analysis' = Raised
                 /\ UNCHANGED debit_rows
            ELSE /\ debit_rows' = [debit_rows EXCEPT !.profile = profile_debit_mask(df')]
                 /\ pandas_analysis' =
                       IF /\ profile_debit_mask(df') # {}
                          /\ key_error({"category", "merchant_name"})
                       THEN Raised
                       ELSE analyze_transactions_with_pandas(df')

\* the free-standing call of the node on a loaded table
PandasAnalysisNode ==
    /\ load = "table"
    /\ PandasAnalysisCall
    /\ UNCHANGED <<category, bucket, trend_analysis, budget_baseline, budget_plan, outside>>

\* main.trend_pandas_node: pd.to_datetime raises before anything is assigned;
\* the category column is read after the not-enough-data return
TrendAnalysisCall ==
    IF key_error({"timestamp"}) \/ to_datetime_raises(df)
    THEN /\ trend_analysis' = Raised
         /\ UNCHANGED <<df, debit_rows>>
    ELSE IF key_error({"amount"})
    THEN /\ df' = prepare_dates(df)
         /\ trend_analysis' = Raised
         /\ UNCHANGED debit_rows
    ELSE /\ df' = prepare_time(df)
         /\ IF key_error({"direction"})
            THEN /\ trend_analysis' = Raised
                 /\ UNCHANGED debit_rows
            ELSE /\ debit_rows' = [debit_rows EXCEPT !.trend = trend_debit_mask(df')]
                 /\ trend_analysis' =
                       LET analysis == analyze_trends_with_pandas(df')
                       IN  IF analysis.kind = "analysis" /\ key_error({"category"})
                           THEN Raised
                           ELSE analysis

\* the free-standing call of the node on a loaded table
TrendPandasNode ==
    /\ load = "table"
    /\ TrendAnalysisCall
    /\ UNCHANGED <<category, bucket, pandas_analysis, budget_baseline, budget_plan, outside>>

\* the call of create_budget_baseline_with_pandas on the user's table
BudgetBaselineCall ==
    IF key_error({"timestamp"}) \/ to_datetime_raises(df)
    THEN /\ budget_baseline' = Raised
         /\ UNCHANGED <<df, debit_rows>>
    ELSE IF key_error({"amount"})
    THEN /\ df' = prepare_dates(df)
         /\ budget_baseline' = Raised
         /\ UNCHANGED debit_rows
    ELSE /\ df' = prepare_time(df)
         /\ IF key_error({"direction"})
            THEN /\ budget_baseline' = Raised
                 /\ UNCHANGED debit_rows
            ELSE /\ debit_rows' = [debit_rows EXCEPT !.budget = budget_debit_mask(df')]
                 /\ budget_baseline' =
                       IF key_error({"category"}) THEN Raised
                       ELSE create_budget_baseline_with_pandas(df')

\* main.budget_pandas_node
BudgetPandasNode ==
    /\ load = "table"
    /\ BudgetBaselineCall
    /\ UNCHANGED <<category, bucket, pandas_analysis, trend_analysis, budget_plan, outside>>

\* streamlit_app.generate_budget_for_user on the user's table
GenerateBudgetForUser ==
    \E llm \in LlmOutcomes :
        /\ load = "table"
        /\ BudgetBaselineCall
        /\ budget_plan' = generate_budget_for_user(df, budget_baseline', llm)
        /\ UNCHANGED <<category, bucket, pandas_analysis, trend_analysis, outside>>

\* app.invoke(initial_input) of main.py on one user's copy of the rows: the
\* workflow runs the profile, trend and budget stages in turn; the text
\* generation nodes catch their own errors, the pandas stages do not
app_invoke(user_df) ==
    LET after_profile == coerce_amount(user_df)
    IN  IF to_datetime_raises(after_profile) THEN Raised
        ELSE LET trend == analyze_trends_with_pandas(prepare_time(after_profile))
             IN  IF trend.kind = "raised" THEN Raised
                 ELSE [kind |-> "final_report",
                       profile |-> analyze_transactions_with_pandas(after_profile).kind,
                       trends |-> trend.kind,
                       budget |-> "baseline"]

\* all_user_reports[user_id] = report
set_report(reports, user_id, report) ==
    [u \in DOMAIN reports \cup {user_id} |-> IF u = user_id THEN report ELSE reports[u]]

\* one turn of the loop `for user_id in unique_user_ids`, the users numbered
\* in the order of unique(): an exception of app.invoke leaves the function,
\* all_user_reports with it
AnalyzeNextUser ==
    /\ batch.status = "running"
    /\ batch.pos <= Len(batch.slices)
    /\ LET user_df == batch.slices[batch.pos]
           final_state == app_invoke(user_df)
       IN  batch' =
              IF user_df = <<>>
              THEN [batch EXCEPT !.all_user_reports =
                        set_report(@, batch.pos, [kind |-> "No data available for this user."]),
                                 !.pos = @ + 1]
              ELSE IF final_state.kind = "raised"
              THEN [batch EXCEPT !.status = "raised"]
              ELSE [batch EXCEPT !.all_user_reports = set_report(@, batch.pos, final_state),
                                 !.pos = @ + 1]
    /\ UNCHANGED <<category, bucket, df, pandas_analysis, trend_analysis, budget_baseline,
                   budget_plan, debit_rows, ledger, columns, load, run, apps>>

\* after the loop every report is printed
PrintReports ==
    /\ batch.status = "running"
    /\ batch.pos > Len(batch.slices)
    /\ batch' = [batch EXCEPT !.status = "done", !.printed = batch.all_user_reports]
    /\ UNCHANGED <<category, bucket, df, pandas_analysis, trend_analysis, budget_baseline,
                   budget_plan, debit_rows, ledger, columns, load, run, apps>>

\* what client.chat.completions.create does: it returns a text or it raises
LlmReplies == {"reply one", "reply two"}

LlmFailure == "raise"

\* profile_builder.generate_profile_from_analysis: whether the function gets
\* as far as the call of the service
profile_calls_service(analysis) == ~("summary" \in DOMAIN analysis)

\* profile_builder.generate_profile_from_analysis, given what the service does
generate_profile_from_analysis(analysis, service) ==
    IF "summary" \in DOMAIN analysis THEN analysis.summary
    ELSE IF service = LlmFailure THEN "An error occurred with the OpenAI API"
    ELSE service

\* trend_analyzer.summarize_trends_with_llm: whether the service is called
trend_calls_service(analysis) == ~("trend_summary" \in DOMAIN analysis)

\* trend_analyzer.summarize_trends_with_llm, given what the service does
summarize_trends_with_llm(analysis, service) ==
    IF "trend_summary" \in DOMAIN analysis THEN analysis.trend_summary
    ELSE IF service = LlmFailure
    THEN "An error occurred with the OpenAI API during trend summarization"
    ELSE service

\* budgeting_expert.generate_budget_plan_with_llm, given what the service
\* does: the baseline and the profile only fill the prompt
generate_budget_plan_with_llm(baseline, profile, service) ==
    IF service = LlmFailure
    THEN "An error occurred with the OpenAI API during budget planning"
    ELSE service

\* insight_generator.generate_final_report: the three texts in the three
\* numbered sections of the template
generate_final_report(profile, trends, budget) == <<profile, trends, budget>>

\* state.get(key, 'N/A')
state_get(state, key) == IF key \in DOMAIN state THEN state[key] ELSE "N/A"

\* a node's returned dict merged into the workflow state
state_set(state, key, value) ==
    [k \in DOMAIN state \cup {key} |-> IF k = key THEN value ELSE state[k]]

\* the nodes in the order of the edges from the entry point to END
NodeOrder ==
    <<"profile_pandas", "profile_llm", "trend_pandas", "trend_llm",
      "budget_pandas", "budget_llm", "generate_report">>

\* workflow.add_edge(node, successor)
successor(node) ==
    LET i == CHOOSE j \in Idx(NodeOrder) : NodeOrder[j] = node
    IN  IF i = Len(NodeOrder) THEN "END" ELSE NodeOrder[i + 1]

\* the node has run: an exception leaves app.invoke, otherwise the edge is
\* followed
node_done(r, raised) ==
    [r EXCEPT !.node = IF raised THEN "raised" ELSE successor(r.node),
              !.trace = Append(@, r.node)]

\* node profile_pandas = main.pandas_analysis_node
profile_pandas ==
    /\ run.node = "profile_pandas"
    /\ PandasAnalysisCall
    /\ run' = node_done(run, pandas_analysis'.kind = "raised")
    /\ UNCHANGED <<category, bucket, trend_analysis, budget_baseline, budget_plan,
                   ledger, columns, load, batch, apps>>

\* node profile_llm = main.profile_llm_node
profile_llm ==
    \E service \in LlmReplies \cup {LlmFailure} :
        /\ run.node = "profile_llm"
        /\ run' = [node_done(run, FALSE) EXCEPT
                      !.state = state_set(@, "profile_summary",
                                    generate_profile_from_analysis(pandas_analysis, service)),
                      !.calls = IF profile_calls_service(pandas_analysis)
                                THEN @ \cup {"profile_llm"} ELSE @,
                      !.failed = IF profile_calls_service(pandas_analysis)
                                    /\ service = LlmFailure
                                 THEN @ \cup {"profile_llm"} ELSE @]
        /\ UNCHANGED <<category, bucket, df, pandas_analysis, trend_analysis,
                       budget_baseline, budget_plan, debit_rows, ledger, columns, load, batch, apps>>

\* node trend_pandas = main.trend_pandas_node
trend_pandas ==
    /\ run.node = "trend_pandas"
    /\ TrendAnalysisCall
    /\ run' = node_done(run, trend_analysis'.kind = "raised")
    /\ UNCHANGED <<category, bucket, pandas_analysis, budget_baseline, budget_plan,
                   ledger, columns, load, batch, apps>>

\* node trend_llm = main.trend_llm_node
trend_llm ==
    \E service \in LlmReplies \cup {LlmFailure} :
        /\ run.node = "trend_llm"
        /\ run' = [node_done(run, FALSE) EXCEPT
                      !.state = state_set(@, "trend_summary",
                                    summarize_trends_with_llm(trend_analysis, service)),
                      !.calls = IF trend_calls_service(trend_analysis)
                                THEN @ \cup {"trend_llm"} ELSE @,
                      !.failed = IF trend_calls_service(trend_analysis)
                                    /\ service = LlmFailure
                                 THEN @ \cup {"trend_llm"} ELSE @]
        /\ UNCHANGED <<category, bucket, df, pandas_analysis, trend_analysis,
                       budget_baseline, budget_plan, debit_rows, ledger, columns, load, batch, apps>>

\* node budget_pandas = main.budget_pandas_node
budget_pandas ==
    /\ run.node = "budget_pandas"
    /\ BudgetBaselineCall
    /\ run' = node_done(run, budget_baseline'.kind = "raised")
    /\ UNCHANGED <<category, bucket, pandas_analysis, trend_analysis, budget_plan,
                   ledger, columns, load, batch, apps>>

\* node budget_llm = main.budget_llm_node: state['profile_summary'] is read
\* with a subscript
budget_llm ==
    \E service \in LlmReplies \cup {LlmFailure} :
        /\ run.node = "budget_llm"
        /\ run' = IF "profile_summary" \notin DOMAIN run.state
                  THEN node_done(run, TRUE)
                  ELSE [node_done(run, FALSE) EXCEPT
                           !.state = state_set(@, "budget_summary",
                                        generate_budget_plan_with_llm(
                                            budget_baseline, run.state["profile_summary"],
                                            service)),
                           !.calls = @ \cup {"budget_llm"},
                           !.failed = IF service = LlmFailure
                                      THEN @ \cup {"budget_llm"} ELSE @]
        /\ UNCHANGED <<category, bucket, df, pandas_analysis, trend_analysis,
                       budget_baseline, budget_plan, debit_rows, ledger, columns, load, batch, apps>>

\* node generate_report = main.insight_generator_node
generate_report ==
    /\ run.node = "generate_report"
    /\ run' = [node_done(run, FALSE) EXCEPT
                  !.state = state_set(@, "final_report",
                                generate_final_report(
                                    state_get(run.state, "profile_summary"),
                                    state_get(run.state, "trend_summary"),
                                    state_get(run.state, "budget_summary")))]
    /\ UNCHANGED <<category, bucket, df, pandas_analysis, trend_analysis,
                   budget_baseline, budget_plan, debit_rows, ledger, columns, load, batch, apps>>

\* full_df['user_id'].unique(): the missing value is one of the values
unique_user_ids(t) == unique([i \in Idx(t) |-> t[i].user_id])

\* full_df['user_id'] == user_id: a missing value equals nothing
user_mask(t, user_id) ==
    {i \in Idx(t) : t[i].user_id.k # "nan" /\ user_id.k # "nan" /\ t[i].user_id = user_id}

\* faulty variant: the slice is a view, the stage's column writes reach full_df
full_df_after_view(full_df, keep, written) ==
    [i \in Idx(full_df) |->
        IF i \in keep THEN written[Cardinality({j \in keep : j <= i})] ELSE full_df[i]]

\* full_df after the analysis has written columns of the slice: the slice is
\* a .copy()
full_df_after(full_df, keep, written) == full_df

\* the keys of the final state that analyze_all_users_data reads, and the
\* table the workflow wrote into
analyze_single_user(user_df, service) ==
    IF user_df = <<>>
    THEN [profile_summary |-> "No data available for this user.",
          pandas_analysis |-> EmptyDict,
          transactions_df |-> user_df]
    ELSE LET t == coerce_amount(user_df)
             analysis == analyze_transactions_with_pandas(t)
         IN  [profile_summary |-> generate_profile_from_analysis(analysis, service),
              pandas_analysis |-> analysis,
              transactions_df |-> t]

\* results[user_id] = {...}
set_result(results, user_id, entry) ==
    [u \in DOMAIN results \cup {user_id} |-> IF u = user_id THEN entry ELSE results[u]]

\* analyze_all_users_data up to the loop: {} for no table or an empty one
AnalyzeAllUsersData ==
    /\ all_users.status = "called"
    /\ all_users' =
          IF all_users.is_none \/ all_users.full_df = <<>>
          THEN [all_users EXCEPT !.status = "returned"]
          ELSE [all_users EXCEPT !.status = "loop",
                                 !.unique_user_ids = unique_user_ids(all_users.full_df)]
    /\ UNCHANGED <<category, bucket, df, pandas_analysis, trend_analysis, budget_baseline,
                   budget_plan, debit_rows, ledger, columns, load, batch, run, file, session>>

\* one turn of `for user_id in unique_user_ids`
AnalyzeSingleUser ==
    \E service \in LlmReplies \cup {LlmFailure} :
        /\ all_users.status = "loop"
        /\ all_users.pos <= Len(all_users.unique_user_ids)
        /\ LET user_id == all_users.unique_user_ids[all_users.pos]
               keep == user_mask(all_users.full_df, user_id)
               user_df == mask_rows(all_users.full_df, keep, 1)
               final_state == analyze_single_user(user_df, service)
           IN  all_users' =
                  [all_users EXCEPT
                      !.full_df = full_df_after(@, keep, final_state.transactions_df),
                      !.results = set_result(@, user_id, final_state),
                      !.invoked = IF user_df = <<>> THEN @ ELSE @ \cup {user_id},
                      !.pos = @ + 1]
        /\ UNCHANGED <<category, bucket, df, pandas_analysis, trend_analysis,
                       budget_baseline, budget_plan, debit_rows, ledger, columns, load,
                       batch, run, file, session>>

\* `return results`
ReturnResults ==
    /\ all_users.status = "loop"
    /\ all_users.pos > Len(all_users.unique_user_ids)
    /\ all_users' = [all_users EXCEPT !.status = "returned"]
    /\ UNCHANGED <<category, bucket, df, pandas_analysis, trend_analysis, budget_baseline,
                   budget_plan, debit_rows, ledger, columns, load, batch, run, file, session>>

\* the Budget Baseline Engine's classifier applied to one category
ClassifyBaseline ==
    /\ bucket' = [bucket EXCEPT !.baseline = map_category(category)]
    /\ UNCHANGED <<category, df, pandas_analysis, trend_analysis, budget_baseline,
                   budget_plan, debit_rows, outside>>

\* the dashboard's classifier applied to one category
ClassifyViz ==
    /\ bucket' = [bucket EXCEPT !.viz = viz_map_category(category)]
    /\ UNCHANGED <<category, df, pandas_analysis, trend_analysis, budget_baseline,
                   budget_plan, debit_rows, outside>>

----------------------------------------------------------------------------
(* Inputs *)

MaxMonth == 3
MaxTrendRows == 4
MaxAmountRows == 3
MaxCompareRows == 3
BurstRows == 11
MaxBudgetRows == 3
MaxSchemaRows == 2
MaxCoerceRows == 3
MaxRankRows == 6
MaxUsers == 3
MaxWorkflowRows == 2
MaxAllUsersRows == 2

RECURSIVE SeqsUpTo(_, _)
SeqsUpTo(S, n) ==
    IF n = 0 THEN {<<>>}
    ELSE LET shorter == SeqsUpTo(S, n - 1)
         IN  shorter \cup {Append(t, r) : t \in {u \in shorter : Len(u) = n - 1}, r \in S}

Tables(S, n) == SeqsUpTo(S, n) \ {<<>>}

Directions == {s_debit, s_Debit, s_debit_padded, s_DEBIT, s_credit, NaN}

\* two months, every spelling of the direction
DirectionRows ==
    {Row(DateStr(m, 5), Num(2), dir, s_Rent, s_shopA) : m \in 1..2, dir \in Directions}

\* one month, categories and amounts vary
CategoryRows ==
    {Row(DateStr(1, 5), amt, dir, cat, s_shopA) :
        amt \in {Num(1), NumStr(2)}, dir \in {s_debit, s_credit},
        cat \in {s_Rent, s_Food, NaN}}

\* one month, amounts that are numbers, numeric text, other text or missing
CoerceRows ==
    {Row(DateStr(1, 5), amt, dir, s_Rent, s_shopA) :
        amt \in {Num(1), NumStr(2), BadNum, NoNum}, dir \in {s_debit, s_credit}}

RankCategories ==
    <<kw_rent, kw_food, kw_travel, kw_bills, kw_emi, kw_health, kw_shopping, kw_recharge>>

RankMerchants == <<<<"A">>, <<"B">>, <<"C">>, <<"D">>, <<"E">>, <<"F">>, <<"G">>, <<"H">>>>

\* debit rows of one month: row i is of the i-th category or of the first one;
\* the amount is 1, or 2 for any of the first three rows
CategoryRankTables ==
    UNION {{[i \in 1..n |->
                Row(DateStr(1, 5), Num(amt[i]), s_debit,
                    RankCategories[IF own[i] THEN i ELSE 1], s_shopA)] :
               own \in [1..n -> BOOLEAN],
               amt \in {f \in [1..n -> {1, 2}] : \A i \in 1..n : f[i] = 2 => i <= 3}} :
           n \in 1..MaxRankRows}

\* debit rows of one month: row i is of the i-th merchant or of the first one,
\* any of the first three rows may lack the merchant; the second row has the
\* large amount
MerchantRankTables ==
    UNION {{[i \in 1..n |->
                Row(DateStr(1, 5), Num(IF i = 2 THEN 9 ELSE 1), s_debit, s_Rent,
                    IF mer[i] = "own" THEN RankMerchants[i]
                    ELSE IF mer[i] = "first" THEN RankMerchants[1]
                    ELSE NaN)] :
               mer \in {f \in [1..n -> {"own", "first", "missing"}] :
                           \A i \in 1..n : f[i] = "missing" => i <= 3}} :
           n \in 1..MaxRankRows}

\* months, missing and unparseable timestamps
MonthRows ==
    {Row(ts, Num(1000), s_debit, s_Rent, s_shopA) :
        ts \in {DateStr(m, 5) : m \in 1..MaxMonth} \cup {NoDate, BadDate}}
    \cup
    {Row(ts, Num(1000), s_credit, s_Rent, s_shopA) :
        ts \in {DateStr(MaxMonth, 5), NoDate, BadDate}}

\* two months of signed amounts
AmountRows ==
    {Row(Date(m, 5), Num(v), s_debit, s_Rent, s_shopA) :
        m \in 1..2, v \in {1000, 1200, 500, 0 - 500}}

\* months and categories vary, with a third month and a credit row
CompareRows ==
    {Row(Date(m, 5), Num(v), s_debit, cat, s_shopA) :
        m \in 1..2, v \in {100, 300}, cat \in {s_Rent, s_Food, NaN}}
    \cup {Row(Date(3, 5), Num(100), s_debit, s_Gifts, s_shopA),
          Row(Date(2, 5), Num(100), s_credit, s_Gifts, s_shopA)}

\* ledgers of BurstRows debit rows of amount 100, at most two of them replaced
\* by 10000; the first k rows are of January, the others of February
BurstTables ==
    {[i \in 1..BurstRows |->
        Row(Date(IF i <= k THEN 1 ELSE 2, 5),
            Num(IF i \in large THEN 10000 ELSE 100), s_debit, s_Rent, s_shopA)] :
        k \in 1..(BurstRows - 1),
        large \in {L \in SUBSET (1..BurstRows) : Cardinality(L) <= 2}}

\* one bucket per category, two categories a month, a missing timestamp and
\* a credit row
BudgetRows ==
    {Row(DateStr(m, 5), Num(100), s_debit, cat, s_shopA) :
        m \in 1..MaxMonth, cat \in {s_Rent, s_Food}}
    \cup {Row(DateStr(MaxMonth, 5), Num(100), s_debit, s_Gifts, s_shopA)}
    \cup {Row(NoDate, Num(100), s_debit, s_Rent, s_shopA),
          Row(DateStr(1, 5), Num(100), s_credit, s_Rent, s_shopA)}

\* two months, debit and credit rows
SchemaRows ==
    {Row(DateStr(m, 5), Num(100), dir, s_Rent, s_shopA) :
        m \in 1..2, dir \in {s_debit, s_credit}}

\* one user's rows: two months, one month, a timestamp that does not parse,
\* a missing timestamp
UserSlices ==
    {<<Row(DateStr(1, 5), Num(100), s_debit, s_Rent, s_shopA),
       Row(DateStr(2, 5), Num(300), s_debit, s_Food, s_shopA)>>,
     <<Row(DateStr(1, 5), Num(100), s_debit, s_Rent, s_shopA)>>,
     <<Row(DateStr(1, 5), Num(100), s_debit, s_Rent, s_shopA),
       Row(BadDate, Num(100), s_debit, s_Rent, s_shopA)>>,
     <<Row(DateStr(1, 5), Num(100), s_debit, s_Rent, s_shopA),
       Row(NoDate, Num(100), s_debit, s_Rent, s_shopA)>>}

Words ==
    {kw_groceries, kw_utilities, kw_rent, kw_transport, kw_bills, kw_emi, kw_health,
     kw_shopping, kw_food, kw_travel, kw_entertainment, kw_recharge, kw_lifestyle,
     kw_subscription,
     s_Rent, s_Food, s_Health, s_Gifts, s_DEBIT,
     <<"F", "O", "O", "D">>,
     <<"S", "u", "b", "s", "c", "r", "i", "p", "t", "i", "o", "n">>,
     <<"p", "a", "r", "e", "n", "t">>,
     <<"p", "r", "e", "m", "i", "u", "m">>,
     <<"m", "i", "s", "c">>,
     <<"c", "a", "f", "U+00E9">>,
     <<"U+00C9", "M", "I">>,
     <<"r", "e", "n">>,
     <<>>}

\* a word, two words joined by " & ", or a missing cell
Categories ==
    Words \cup {a \o <<" ", "&", " ">> \o b : a \in Words, b \in Words} \cup {NaN}

NoResults ==
    /\ pandas_analysis = NotRun
    /\ trend_analysis = NotRun
    /\ budget_baseline = NotRun
    /\ budget_plan = NotRun
    /\ debit_rows = [profile |-> {}, trend |-> {}, budget |-> {}]
    /\ bucket = [baseline |-> "none", viz |-> "none"]

RequiredColumns ==
    {"timestamp", "amount", "direction", "category", "merchant_name", "user_id"}

NoBatch == [status |-> "none"]

NoRun == [node |-> "none"]

NoCall == [status |-> "none"]

\* a file that is there and reads
SampleFile ==
    [file_path |-> <<"a", ".", "x", "l", "s", "x">>, no_path |-> FALSE,
     found |-> TRUE, reads |-> TRUE]

\* the three keys as the script's first run sets them
NoData == [is_none |-> TRUE, rows |-> <<>>]

NewSession ==
    [analysis_results |-> [u \in {} |-> EmptyDict], processed_data |-> NoData,
     budget_plans |-> [u \in {} |-> EmptyDict], event |-> [kind |-> "none"]]

\* nothing but the per-user table is in use
NoApps ==
    /\ all_users = NoCall
    /\ file = SampleFile
    /\ session = NewSession

\* df is one user's slice of a table that load_transactions returned
Loaded ==
    /\ ledger = df
    /\ columns = RequiredColumns
    /\ load = "table"
    /\ batch = NoBatch
    /\ run = NoRun
    /\ NoApps

Init ==
    /\ df \in Tables(DirectionRows, MaxRows) \cup Tables(CategoryRows, MaxRows)
    /\ category = NaN
    /\ NoResults
    /\ Loaded

InitTrend ==
    /\ df \in Tables(MonthRows, MaxTrendRows) \cup Tables(AmountRows, MaxAmountRows)
    /\ category = NaN
    /\ NoResults
    /\ Loaded

InitProfile ==
    /\ df \in Tables(CoerceRows, MaxCoerceRows) \cup CategoryRankTables
                \cup MerchantRankTables
    /\ category = NaN
    /\ NoResults
    /\ Loaded

InitCompare ==
    /\ df \in Tables(CompareRows, MaxCompareRows) \cup BurstTables
    /\ category = NaN
    /\ NoResults
    /\ Loaded

InitBudget ==
    /\ df \in Tables(BudgetRows, MaxBudgetRows)
    /\ category = NaN
    /\ NoResults
    /\ Loaded

\* a file that has not been read yet, with any of the required columns missing
InitSchema ==
    /\ df \in Tables(SchemaRows, MaxSchemaRows)
    /\ category = NaN
    /\ NoResults
    /\ ledger = df
    /\ columns \in SUBSET RequiredColumns
    /\ load = "unread"
    /\ batch = NoBatch
    /\ run = NoRun
    /\ NoApps

\* the loaded table split by user_id, before the first turn of the loop
InitBatch ==
    /\ df = <<>>
    /\ category = NaN
    /\ NoResults
    /\ ledger = df
    /\ columns = RequiredColumns
    /\ load = "table"
    /\ \E slices \in Tables(UserSlices, MaxUsers) :
           batch = [status |-> "running", slices |-> slices, pos |-> 1,
                    all_user_reports |-> <<>>, printed |-> <<>>]
    /\ run = NoRun
    /\ NoApps

\* one user's rows: either direction, two months, a timestamp that does not
\* parse and a missing one
WorkflowRows ==
    {Row(ts, Num(100), dir, s_Rent, s_shopA) :
        ts \in {DateStr(1, 5), DateStr(2, 5), BadDate, NoDate},
        dir \in {s_debit, s_credit}}

\* initial_input = {"user_id": user_id, "transactions_df": user_df}
StartRun ==
    [node |-> "profile_pandas", state |-> [k \in {} |-> ""], calls |-> {},
     failed |-> {}, trace |-> <<>>]

\* app.invoke(initial_input) is about to run the entry point
InitWorkflow ==
    /\ df \in Tables(WorkflowRows, MaxWorkflowRows)
    /\ category = NaN
    /\ NoResults
    /\ ledger = df
    /\ columns = RequiredColumns
    /\ load = "table"
    /\ batch = NoBatch
    /\ run = StartRun
    /\ NoApps

\* rows of two users and rows whose user_id cell is empty; an amount that is
\* not a number is what the Aggregator's coercion rewrites
AllUsersRows ==
    {[Row(DateStr(1, 5), amt, dir, s_Rent, s_shopA) EXCEPT !.user_id = u] :
        u \in {Num(1), Num(2), NoNum},
        amt \in {Num(100), BadNum},
        dir \in {s_debit, s_credit}}

\* analyze_all_users_data(full_df) has been called: full_df is None, an empty
\* table or a table with the required columns
InitAllUsers ==
    /\ df = <<>>
    /\ category = NaN
    /\ NoResults
    /\ ledger = df
    /\ columns = RequiredColumns
    /\ load = "table"
    /\ batch = NoBatch
    /\ run = NoRun
    /\ file = SampleFile
    /\ session = NewSession
    /\ \E is_none \in BOOLEAN, full_df \in SeqsUpTo(AllUsersRows, MaxAllUsersRows) :
           /\ is_none => full_df = <<>>
           /\ all_users = [status |-> "called", is_none |-> is_none, input |-> full_df,
                           full_df |-> full_df, unique_user_ids |-> <<>>, pos |-> 1,
                           results |-> [u \in {} |-> EmptyDict], invoked |-> {}]

\* paths with the three extensions in either case, other extensions, no
\* extension, a name that is only an extension, a dot in the directory
FilePaths ==
    {<<"a", ".", "x", "l", "s", "x">>, <<"a", ".", "X", "L", "S", "X">>,
     <<"a", ".", "x", "l", "s">>, <<"a", ".", "c", "s", "v">>,
     <<"a", ".", "C", "s", "v">>, <<"a", ".", "b", ".", "c", "s", "v">>,
     <<"a", ".", "t", "x", "t">>, <<"a", ".", "c", "s", "v", ".", "b">>,
     <<"a", ".", "x", "l", "s", "m">>, <<"a">>, <<".", "c", "s", "v">>,
     <<"a", ".", ".", "c", "s", "v">>, <<".", ".", "c", "s", "v">>,
     <<"d", ".", "c", "s", "v", "/", "a">>, <<"d", "/", ".", "x", "l", "s">>}

\* the labels of the table in the file: any of the required ones, or user_id
\* spelled otherwise
ColumnSets ==
    (SUBSET RequiredColumns) \cup {(RequiredColumns \ {"user_id"}) \cup {"User_ID"}}

\* load_transactions(file_path) has been called, nothing is read yet
InitLoad ==
    /\ df = <<>>
    /\ category = NaN
    /\ NoResults
    /\ ledger = df
    /\ columns \in ColumnSets
    /\ load = "unread"
    /\ batch = NoBatch
    /\ run = NoRun
    /\ all_users = NoCall
    /\ session = NewSession
    /\ \E p \in FilePaths, found \in BOOLEAN, reads \in BOOLEAN, no_path \in BOOLEAN :
           /\ no_path => (p = <<"a">> /\ found /\ reads)
           /\ ~found => reads
           /\ file = [file_path |-> p, no_path |-> no_path, found |-> found, reads |-> reads]

\* the users of the uploaded files
SessionUsers == {Num(1), Num(2)}

SessionRow(u) ==
    [Row(DateStr(1, 5), Num(100), s_debit, s_Rent, s_shopA) EXCEPT !.user_id = u]

\* the files of the session: empty, one user, the other user, both users
SessionTables ==
    {<<>>, <<SessionRow(Num(1))>>, <<SessionRow(Num(2))>>,
     <<SessionRow(Num(1)), SessionRow(Num(2))>>}

\* what reading the chosen file gives: an exception, no table, or a table
\* (empty or not)
AnalyzeOutcomes ==
    {[kind |-> "raised", rows |-> <<>>], [kind |-> "None", rows |-> <<>>]}
    \cup {[kind |-> "table", rows |-> t] : t \in SessionTables}

\* analyze_all_users_data as one call, given what the service does for each
\* user: the entries in the order of unique()
RECURSIVE all_users_results(_, _, _, _)
all_users_results(full_df, ids, services, results) ==
    IF ids = <<>> THEN results
    ELSE LET user_id == Head(ids)
             user_df == mask_rows(full_df, user_mask(full_df, user_id), 1)
         IN  all_users_results(full_df, Tail(ids), services,
                 set_result(results, user_id,
                            analyze_single_user(user_df, services[user_id])))

\* streamlit_app.load_and_analyze_data: (data, results), (None, {}) for no
\* table or an empty one, (None, None) when anything raised
load_and_analyze_data(outcome, services) ==
    IF outcome.kind = "raised"
    THEN [data |-> NoData, results |-> [u \in {} |-> EmptyDict], results_none |-> TRUE]
    ELSE IF outcome.kind = "None" \/ outcome.rows = <<>>
    THEN [data |-> NoData, results |-> [u \in {} |-> EmptyDict], results_none |-> FALSE]
    ELSE [data |-> [is_none |-> FALSE, rows |-> outcome.rows],
          results |-> all_users_results(outcome.rows, unique_user_ids(outcome.rows),
                                        services, [u \in {} |-> EmptyDict]),
          results_none |-> FALSE]

\* faulty variant: the plans of the earlier analysis are kept
store_analysis_keep_plans(s, loaded) ==
    IF ~loaded.results_none /\ DOMAIN loaded.results # {}
    THEN [s EXCEPT !.analysis_results = loaded.results,
                   !.processed_data = loaded.data]
    ELSE s

\* `if results:` and the three assignments under it
store_analysis(s, loaded) ==
    IF ~loaded.results_none /\ DOMAIN loaded.results # {}
    THEN [s EXCEPT !.analysis_results = loaded.results,
                   !.processed_data = loaded.data,
                   !.budget_plans = [u \in {} |-> EmptyDict]]
    ELSE s

\* the 'Analyze Transactions' button: what the file gives is one of no table,
\* an exception, or a table
Analyze ==
    \E outcome \in AnalyzeOutcomes, services \in [SessionUsers -> {"reply one", LlmFailure}] :
        /\ LET loaded == load_and_analyze_data(outcome, services)
               before == [k \in {"analysis_results", "processed_data", "budget_plans"} |->
                             session[k]]
           IN  session' = [store_analysis(session, loaded) EXCEPT
                              !.event = [kind |-> "analysis", loaded |-> loaded,
                                         before |-> before]]
        /\ UNCHANGED <<category, bucket, df, pandas_analysis, trend_analysis,
                       budget_baseline, budget_plan, debit_rows, ledger, columns, load,
                       batch, run, all_users, file>>

\* the 'Generate Budget Plan' button of the selected user, one of the keys of
\* the analysis on display
GenerateBudgetPlan ==
    \E selected_user \in DOMAIN session.analysis_results, llm \in LlmOutcomes :
        /\ LET user_data == session.analysis_results[selected_user]
               t == user_data.transactions_df
               baseline == IF to_datetime_raises(t) THEN Raised
                           ELSE create_budget_baseline_with_pandas(prepare_time(t))
           IN  session' = [session EXCEPT
                              !.budget_plans =
                                  set_result(@, selected_user,
                                             generate_budget_for_user(t, baseline, llm)),
                              !.event = [kind |-> "budget", user |-> selected_user]]
        /\ UNCHANGED <<category, bucket, df, pandas_analysis, trend_analysis,
                       budget_baseline, budget_plan, debit_rows, ledger, columns, load,
                       batch, run, all_users, file>>

\* the first run of the script
InitSession ==
    /\ df = <<>>
    /\ category = NaN
    /\ NoResults
    /\ ledger = df
    /\ columns = RequiredColumns
    /\ load = "table"
    /\ batch = NoBatch
    /\ run = NoRun
    /\ all_users = NoCall
    /\ file = SampleFile
    /\ session = NewSession

InitClassify ==
    /\ category \in Categories
    /\ df = <<>>
    /\ NoResults
    /\ Loaded

Next ==
    \/ PandasAnalysisNode
    \/ TrendPandasNode
    \/ BudgetPandasNode
    \/ GenerateBudgetForUser

NextSchema ==
    \/ LoadTransactions
    \/ Next

NextBatch ==
    \/ AnalyzeNextUser
    \/ PrintReports

NextClassify ==
    \/ ClassifyBaseline
    \/ ClassifyViz

Spec == Init /\ [][Next]_vars

SpecTrend == InitTrend /\ [][Next]_vars

\* the Aggregator alone
SpecProfileOnly == InitProfile /\ [][PandasAnalysisNode]_vars

\* the Trend Engine alone
SpecTrendOnly == InitCompare /\ [][TrendPandasNode]_vars

\* the Budget Baseline Engine alone
SpecBudgetOnly == InitBudget /\ [][BudgetPandasNode]_vars

\* reading the file, then the stages
SpecSchema == InitSchema /\ [][NextSchema]_vars

\* the loop over the users
SpecBatch == InitBatch /\ [][NextBatch]_vars

SpecClassify == InitClassify /\ [][NextClassify]_vars

\* one call of load_transactions
SpecLoad == InitLoad /\ [][LoadTransactions]_vars

NextSession ==
    \/ Analyze
    \/ GenerateBudgetPlan

\* the reruns of the Streamlit script, one button at a time
SpecSession == InitSession /\ [][NextSession]_vars

NextAllUsers ==
    \/ AnalyzeAllUsersData
    \/ AnalyzeSingleUser
    \/ ReturnResults

\* one call of analyze_all_users_data
SpecAllUsers == InitAllUsers /\ [][NextAllUsers]_vars

NextWorkflow ==
    \/ profile_pandas
    \/ profile_llm
    \/ trend_pandas
    \/ trend_llm
    \/ budget_pandas
    \/ budget_llm
    \/ generate_report

\* one run of the compiled workflow
SpecWorkflow == InitWorkflow /\ [][NextWorkflow]_vars

----------------------------------------------------------------------------
(* Properties *)

Buckets == {"Needs", "Wants", "Other"}

\* the rows whose direction is 'debit' once trimmed and lowercased
NormalizedDebit == {i \in Idx(df) : series_str_strip_lower(df[i].direction) = s_debit}

Returned(result) == result.kind \notin {"none", "raised"}

\* C1: every debit aggregation keeps exactly the rows whose direction, trimmed
\* and lowercased, is 'debit': all three stages select the same rows for
\* "Debit", " debit " and "DEBIT" as for "debit", and no other row.
C1_DebitSelection ==
    /\ Returned(pandas_analysis) => debit_rows.profile = NormalizedDebit
    /\ Returned(trend_analysis) => debit_rows.trend = NormalizedDebit
    /\ Returned(budget_baseline) => debit_rows.budget = NormalizedDebit

\* the category as the classifiers read it
LoweredCategory == str_lower(py_str(category))

HasNeedsKeyword == any_in(viz_needs, LoweredCategory)
HasWantsKeyword == any_in(viz_wants, LoweredCategory)

\* C2: a category holding both a Needs keyword and a Wants keyword is
\* classified Needs, by either copy of the classifier.
C2_NeedsBeforeWants ==
    (HasNeedsKeyword /\ HasWantsKeyword) =>
        /\ bucket.baseline # "none" => bucket.baseline = "Needs"
        /\ bucket.viz # "none" => bucket.viz = "Needs"

\* the classifier built from the keyword sets
\* Needs = {groceries, utilities, rent, transport, bills, emi, health},
\* Wants = {shopping, food, travel, entertainment, recharge, lifestyle, subscription}
ReferenceBucket ==
    IF HasNeedsKeyword THEN "Needs"
    ELSE IF HasWantsKeyword THEN "Wants"
    ELSE "Other"

\* C3: the Budget Baseline Engine's classifier agrees with the reference
\* classifier on every category.
C3_BaselineMatchesReference ==
    bucket.baseline # "none" => bucket.baseline = ReferenceBucket

\* C4: classification is total: every category gets exactly one of the three
\* buckets, and one holding no keyword of either set gets Other.
C4_ClassificationTotal ==
    /\ bucket.baseline # "none" =>
          /\ bucket.baseline \in Buckets
          /\ (~HasNeedsKeyword /\ ~HasWantsKeyword) => bucket.baseline = "Other"
    /\ bucket.viz # "none" =>
          /\ bucket.viz \in Buckets
          /\ (~HasNeedsKeyword /\ ~HasWantsKeyword) => bucket.viz = "Other"

\* a missing category was classified by both copies
C4_Witness ==
    /\ category = NaN
    /\ bucket.baseline = "Other"
    /\ bucket.viz = "Other"

C6_BudgetEmptySentinel ==
    /\ (Returned(budget_baseline) /\ debit_rows.budget = {}) =>
          budget_baseline.kind = "summary"
    /\ (budget_plan.kind = "plan" /\ Returned(budget_baseline)) =>
          debit_rows.budget # {}

\* C7: the values of the Aggregator's category -> amount mapping sum to the
\* total debit amount it reports.
C7_CategorySumsToTotal ==
    pandas_analysis.kind = "analysis" =>
        sum_over(pandas_analysis.category_spending,
                 DOMAIN pandas_analysis.category_spending)
            = pandas_analysis.total_spending

\* the calendar month of a cell that holds a date
HasDate(ts) == ts.k \in {"date", "datestr"}

\* the debit rows of the trend stage's own filter, and their calendar months
TrendDebit == {i \in Idx(df) : df[i].direction = s_debit}
TrendDebitMonths == {df[i].timestamp.m : i \in {j \in TrendDebit : HasDate(df[j].timestamp)}}

\* C8: the Trend Engine returns the 'insufficient data' sentinel exactly when
\* its debit rows span fewer than two distinct calendar months, and a full
\* summary otherwise.
C8_SentinelIffFewerThanTwoMonths ==
    trend_analysis.kind # "none" =>
        IF Cardinality(TrendDebitMonths) < 2
        THEN trend_analysis.kind = "trend_summary"
        ELSE trend_analysis.kind = "analysis"

\* C9: the total-change percentage is (sum(last) - sum(prev)) / sum(prev) * 100
\* whenever sum(prev) is not zero, and 0 when it is zero.
C9_TotalChangePct ==
    trend_analysis.kind = "analysis" =>
        LET last == trend_analysis.last_month_total
            prev == trend_analysis.prev_month_total
            pct == trend_analysis.total_spend_change_pct
        IN  IF prev = 0 THEN pct.num = 0
            ELSE pct.num * prev = (last - prev) * 100 * pct.den

MaxOf(S) == CHOOSE x \in S : \A y \in S : y <= x

DebitTotalOf(m) ==
    sum_over([i \in Idx(df) |-> to_numeric_fillna(df[i].amount).v],
             {i \in TrendDebit : HasDate(df[i].timestamp) /\ df[i].timestamp.m = m})

\* C10: 'last' is the greatest and 'prev' the second-greatest month among the
\* debit rows, and the two monthly totals are the sums of the debit rows of
\* exactly those months.
C10_LastTwoGreatestMonths ==
    trend_analysis.kind = "analysis" =>
        /\ Cardinality(TrendDebitMonths) >= 2
        /\ trend_analysis.last_month = MaxOf(TrendDebitMonths)
        /\ trend_analysis.prev_month =
               MaxOf(TrendDebitMonths \ {MaxOf(TrendDebitMonths)})
        /\ trend_analysis.last_month_total = DebitTotalOf(trend_analysis.last_month)
        /\ trend_analysis.prev_month_total = DebitTotalOf(trend_analysis.prev_month)

----------------------------------------------------------------------------
(* Trend Engine: categories, changes and bursts *)

\* the debit rows of month m, and those of category c among them
DebitOfMonth(m) == {i \in TrendDebit : df[i].month = m}
DebitOfMonthCategory(m, c) == {i \in DebitOfMonth(m) : df[i].category = c}
AmountOver(S) == sum_over([i \in S |-> df[i].amount.v], S)

\* C11: the per-category comparison has one entry for every category with a
\* debit row in the last or the previous month; a category absent from one of
\* the two months has sum 0 there; each change is last sum minus previous sum
C11_CategoryComparison ==
    trend_analysis.kind = "analysis" =>
        LET last == trend_analysis.last_month
            prev == trend_analysis.prev_month
            cmp == trend_analysis.category_comparison
        IN  /\ DOMAIN cmp =
                   {df[i].category : i \in DebitOfMonth(last) \cup DebitOfMonth(prev)}
                   \ {NaN}
            /\ \A c \in DOMAIN cmp :
                   /\ cmp[c].last_month = AmountOver(DebitOfMonthCategory(last, c))
                   /\ cmp[c].prev_month = AmountOver(DebitOfMonthCategory(prev, c))
                   /\ cmp[c].change = cmp[c].last_month - cmp[c].prev_month

\* a category spent on in the last month only, another in the previous only
C11_Witness ==
    /\ trend_analysis.kind = "analysis"
    /\ \E c, d \in DOMAIN trend_analysis.category_comparison :
           /\ DebitOfMonthCategory(trend_analysis.prev_month, c) = {}
           /\ trend_analysis.category_comparison[c].change > 0
           /\ DebitOfMonthCategory(trend_analysis.last_month, d) = {}
           /\ trend_analysis.category_comparison[d].change < 0

ChangeOf(c) == trend_analysis.category_comparison[c].change
Min2(a, b) == IF a < b THEN a ELSE b
Range(q) == {q[i] : i \in Idx(q)}

\* c is listed before d: by value, equal values in category-label order
LargerFirst(c, d) ==
    ChangeOf(c) > ChangeOf(d) \/ (ChangeOf(c) = ChangeOf(d) /\ str_lt(c, d))
SmallerFirst(c, d) ==
    ChangeOf(c) < ChangeOf(d) \/ (ChangeOf(c) = ChangeOf(d) /\ str_lt(c, d))

\* C12: the top increases are the (at most) three largest positive changes in
\* descending order, so no category with a zero or negative change is reported
\* as an increase; the top decreases are the (at most) three smallest changes
\* in ascending order; equal changes are listed in category-label order
C12_TopChanges ==
    trend_analysis.kind = "analysis" =>
        LET inc == trend_analysis.top_category_increases
            dec == trend_analysis.top_category_decreases
            all == DOMAIN trend_analysis.category_comparison
            positive == {c \in all : ChangeOf(c) > 0}
        IN  /\ Len(inc) = Min2(TopChanges, Cardinality(positive))
            /\ Range(inc) \subseteq positive
            /\ \A i, j \in Idx(inc) : i < j => LargerFirst(inc[i], inc[j])
            /\ \A c \in positive \ Range(inc) : \A i \in Idx(inc) : LargerFirst(inc[i], c)
            /\ Len(dec) = Min2(TopChanges, Cardinality(all))
            /\ \A i, j \in Idx(dec) : i < j => SmallerFirst(dec[i], dec[j])
            /\ \A c \in all \ Range(dec) : \A i \in Idx(dec) : SmallerFirst(dec[i], c)

\* the same ranking, the increases taken among all the changes whatever their sign
TopChangesAnySign ==
    trend_analysis.kind = "analysis" =>
        LET inc == trend_analysis.top_category_increases
            dec == trend_analysis.top_category_decreases
            all == DOMAIN trend_analysis.category_comparison
        IN  /\ Len(inc) = Min2(TopChanges, Cardinality(all))
            /\ \A i, j \in Idx(inc) : i < j => LargerFirst(inc[i], inc[j])
            /\ \A c \in all \ Range(inc) : \A i \in Idx(inc) : LargerFirst(inc[i], c)
            /\ Len(dec) = Min2(TopChanges, Cardinality(all))
            /\ \A i, j \in Idx(dec) : i < j => SmallerFirst(dec[i], dec[j])
            /\ \A c \in all \ Range(dec) : \A i \in Idx(dec) : SmallerFirst(dec[i], c)

\* the amounts of these ledgers are multiples of 100: counted in hundreds
Hundreds(i) == df[i].amount.v \div 100

\* amount > mean + 3 * sample std over the debit rows of every month, with
\* n rows of sum S and sum of squares Q:
\* n*x > S and (n*x - S)^2 * (n-1) > 9 * n * (n*Q - S^2)
AboveThreshold(i) ==
    LET n == Cardinality(TrendDebit)
        S == sum_over([j \in TrendDebit |-> Hundreds(j)], TrendDebit)
        Q == sum_over([j \in TrendDebit |-> Hundreds(j) * Hundreds(j)], TrendDebit)
        e == n * Hundreds(i) - S
    IN  e > 0 /\ e * e * (n - 1) > 9 * n * (n * Q - S * S)

\* ten debit rows of amount 100 and one of 10000, in the last month
BurstScenario ==
    /\ Cardinality(TrendDebit) = 11
    /\ \E i \in TrendDebit :
          /\ df[i].amount.v = 10000
          /\ df[i].month = trend_analysis.last_month
          /\ \A j \in TrendDebit \ {i} : df[j].amount.v = 100

\* C13: the burst threshold is mean + 3 * sample standard deviation of the
\* amount over all the debit rows (every month), and the burst set is exactly
\* the last-month debit rows whose amount is strictly above it; with ten rows
\* of 100 and one last-month row of 10000, only the 10000 row is flagged
C13_BurstSet ==
    trend_analysis.kind = "analysis" =>
        LET rows == trend_analysis.burst_transactions_report.rows
            last == trend_analysis.last_month
        IN  /\ rows = mask_rows(df, {i \in DebitOfMonth(last) : AboveThreshold(i)}, 1)
            /\ BurstScenario => Len(rows) = 1 /\ rows[1].amount.v = 10000

C13_Witness ==
    /\ trend_analysis.kind = "analysis"
    /\ BurstScenario
    /\ Len(trend_analysis.burst_transactions_report.rows) = 1

NoBurstMarker == "No significant burst spending detected."

\* C14: when no last-month debit row is above the burst threshold the burst
\* report is the 'no burst detected' marker, never an empty table; when at
\* least one is, the report lists those rows and is never the marker
C14_BurstMarker ==
    trend_analysis.kind = "analysis" =>
        LET report == trend_analysis.burst_transactions_report
            above == {i \in DebitOfMonth(trend_analysis.last_month) : AboveThreshold(i)}
        IN  IF above = {}
            THEN report.text = NoBurstMarker
            ELSE /\ report.text # NoBurstMarker
                 /\ Len(report.rows) = Cardinality(above)

\* two large rows in the last month, neither above the threshold: the marker
C14_Witness ==
    /\ trend_analysis.kind = "analysis"
    /\ Cardinality({i \in DebitOfMonth(trend_analysis.last_month) :
                       df[i].amount.v = 10000}) = 2
    /\ trend_analysis.burst_transactions_report.text = NoBurstMarker

----------------------------------------------------------------------------
(* Budget Baseline Engine: averages *)

\* the debit rows that enter the month-keyed grouping, their months, and the
\* rows of one bucket among them
BudgetDebit == {i \in Idx(df) : df[i].direction = s_debit /\ df[i].month # NaT}
BudgetDebitMonths == {df[i].month : i \in BudgetDebit}
BudgetDebitOf(b) == {i \in BudgetDebit : map_category(df[i].category) = b}

\* value is the quotient num / den, exactly
IsQuotient(value, num, den) == value.num * den = num * value.den

\* hundredths is num / den rounded to two decimals
IsRounded(hundredths, num, den) ==
    2 * abs(hundredths * den - 100 * num) <= den

BaselineField(b) ==
    IF b = "Needs" THEN budget_baseline.avg_monthly_spend_needs
    ELSE IF b = "Wants" THEN budget_baseline.avg_monthly_spend_wants
    ELSE budget_baseline.avg_monthly_spend_other

\* C15: each bucket's average monthly spend is the sum of the bucket's debit
\* amounts divided by the number of distinct months of the debit rows (a month
\* without spend in the bucket counts as 0), reported to two decimals; a bucket
\* without rows has average 0
C15_BucketAverage ==
    budget_baseline.kind = "baseline" =>
        \A b \in Buckets :
            LET total == AmountOver(BudgetDebitOf(b))
                months == Cardinality(BudgetDebitMonths)
            IN  IF BudgetDebitOf(b) = {}
                THEN /\ budget_baseline.avg_monthly_spend[b].num = 0
                     /\ BaselineField(b) = 0
                ELSE /\ IsQuotient(budget_baseline.avg_monthly_spend[b], total, months)
                     /\ IsRounded(BaselineField(b), total, months)

\* a bucket with spend in one month out of three, another without rows
C15_Witness ==
    /\ budget_baseline.kind = "baseline"
    /\ Cardinality(BudgetDebitMonths) = 3
    /\ \E b, c \in Buckets :
          /\ Cardinality({df[i].month : i \in BudgetDebitOf(b)}) = 1
          /\ BaselineField(b) = 3333
          /\ BudgetDebitOf(c) = {}
          /\ BaselineField(c) = 0

ReportedBucketSum ==
    budget_baseline.avg_monthly_spend_needs + budget_baseline.avg_monthly_spend_wants
        + budget_baseline.avg_monthly_spend_other

----------------------------------------------------------------------------
(* Ledger normalisation: amounts, timestamps, columns *)

Malformed(amt) == amt.k \notin {"num", "numstr"}
LedgerDebit == {i \in Idx(ledger) : series_str_strip_lower(ledger[i].direction) = s_debit}
NumericValue(amt) == IF Malformed(amt) THEN 0 ELSE amt.v

\* C17: a row whose amount is not a number or is missing is never dropped, its
\* amount becomes 0: a debit row with such an amount counts in the Aggregator's
\* transaction count and in the divisor of the mean, and adds 0 to the sums
C17_MalformedAmountKept ==
    pandas_analysis.kind = "analysis" =>
        /\ Len(df) = Len(ledger)
        /\ \A i \in Idx(ledger) : Malformed(ledger[i].amount) => df[i].amount = Num(0)
        /\ pandas_analysis.total_transactions = Cardinality(LedgerDebit)
        /\ pandas_analysis.average_transaction_amount.den = Cardinality(LedgerDebit)
        /\ pandas_analysis.total_spending =
              sum_over([i \in LedgerDebit |-> NumericValue(ledger[i].amount)], LedgerDebit)
        /\ pandas_analysis.average_transaction_amount.num = pandas_analysis.total_spending

\* two debit rows, one of them with an amount that is not a number
C17_Witness ==
    /\ pandas_analysis.kind = "analysis"
    /\ \E i, j \in LedgerDebit :
          /\ ledger[i].amount = BadNum
          /\ ledger[j].amount = NumStr(2)
    /\ pandas_analysis.total_transactions = 2
    /\ pandas_analysis.total_spending = 2

\* C18: a row whose timestamp cannot be parsed never aborts a stage: the Trend
\* Engine and the Budget Baseline Engine still return a result, the row being
\* retained but kept out of the month-keyed grouping
C18_UnparseableTimestampTolerated ==
    (\E i \in Idx(ledger) : ledger[i].timestamp.k = "text") =>
        /\ trend_analysis.kind # "raised"
        /\ budget_baseline.kind # "raised"
        /\ Len(df) = Len(ledger)

\* C19: when a required column is absent the invocation ends with a schema
\* error reported to the caller before any analysis: no table is handed to the
\* stages and no stage produces a result
C19_SchemaErrorBeforeAnalysis ==
    columns # RequiredColumns =>
        /\ load # "table"
        /\ ~Returned(pandas_analysis)
        /\ ~Returned(trend_analysis)
        /\ ~Returned(budget_baseline)
        /\ df = ledger

\* the part of it that the loader enforces: without a user_id column nothing
\* is handed to the stages
MissingUserIdRejected ==
    "user_id" \notin columns =>
        /\ load \in {"unread", "None"}
        /\ ~Returned(pandas_analysis) /\ ~Returned(trend_analysis)
        /\ ~Returned(budget_baseline) /\ df = ledger

----------------------------------------------------------------------------
(* Multi-user batch *)

\* the analysis of user u's slice fails
SliceFails(u) == app_invoke(batch.slices[u]).kind = "raised"

BatchEnded == batch.status \in {"done", "raised"}

\* C20: a failure in the analysis of one user's slice does not stop the batch:
\* every other user gets a result entry, whether processed before or after
\* the failing user
C20_BatchIsolation ==
    BatchEnded =>
        \A u \in Idx(batch.slices) : ~SliceFails(u) => u \in DOMAIN batch.printed

\* without a failing slice every user gets a report
BatchWithoutFailure ==
    (BatchEnded /\ \A u \in Idx(batch.slices) : ~SliceFails(u)) =>
        /\ batch.status = "done"
        /\ DOMAIN batch.printed = Idx(batch.slices)

----------------------------------------------------------------------------
(* Spending Aggregator: merchants and rankings *)

\* the merchant names of the debit rows, and the debit rows without one
NamedMerchants == {ledger[i].merchant_name : i \in LedgerDebit} \ {NaN}
UnknownMerchantRows == {i \in LedgerDebit : ledger[i].merchant_name = NaN}
MerchantValues ==
    Cardinality(NamedMerchants) + (IF UnknownMerchantRows = {} THEN 0 ELSE 1)

\* C21: debit rows without a merchant_name are kept as an 'unknown' merchant:
\* they are counted in the merchant frequency ranking, and the unique merchant
\* count counts 'unknown' as one merchant value
C21_UnknownMerchant ==
    pandas_analysis.kind = "analysis" =>
        /\ pandas_analysis.unique_merchants = MerchantValues
        /\ MerchantValues <= TopMerchants =>
              Len(pandas_analysis.top_merchants_by_frequency) = MerchantValues

NamedCategories == {ledger[i].category : i \in LedgerDebit} \ {NaN}
CategorySum(c) ==
    LET rows == {i \in LedgerDebit : ledger[i].category = c}
    IN  sum_over([i \in rows |-> NumericValue(ledger[i].amount)], rows)
MerchantCount(m) == Cardinality({i \in LedgerDebit : ledger[i].merchant_name = m})

\* category c is listed before d: larger sum, equal sums in grouping order
\* (groupby lists the categories in label order)
CategoryBefore(c, d) ==
    CategorySum(c) > CategorySum(d) \/ (CategorySum(c) = CategorySum(d) /\ str_lt(c, d))

\* C22: the top categories are the (at most) five categories with the largest
\* summed debit amount, in descending order, equal sums in grouping order; the
\* top merchants are the (at most) five merchants with the most debit rows,
\* ranked by row count and not by amount
C22_TopRankings ==
    pandas_analysis.kind = "analysis" =>
        LET top == pandas_analysis.top_spending_categories
            mer == pandas_analysis.top_merchants_by_frequency
        IN  /\ Len(top) = Min2(TopCategories, Cardinality(NamedCategories))
            /\ Range(top) \subseteq NamedCategories
            /\ \A i, j \in Idx(top) : i < j => CategoryBefore(top[i], top[j])
            /\ \A c \in NamedCategories \ Range(top) :
                   \A i \in Idx(top) : CategoryBefore(top[i], c)
            /\ Len(mer) = Min2(TopMerchants, Cardinality(NamedMerchants))
            /\ Cardinality(Range(mer)) = Len(mer)
            /\ Range(mer) \subseteq NamedMerchants
            /\ \A i, j \in Idx(mer) : i < j => MerchantCount(mer[i]) >= MerchantCount(mer[j])
            /\ \A m \in NamedMerchants \ Range(mer) :
                   \A i \in Idx(mer) : MerchantCount(mer[i]) >= MerchantCount(m)

\* six categories, the fifth and the sixth with the same sum: five are listed
C22_Witness ==
    /\ pandas_analysis.kind = "analysis"
    /\ Cardinality(NamedCategories) = 6
    /\ Len(pandas_analysis.top_spending_categories) = 5
    /\ \E c \in NamedCategories \ Range(pandas_analysis.top_spending_categories) :
           CategorySum(c) = CategorySum(pandas_analysis.top_spending_categories[5])

----------------------------------------------------------------------------
(* The workflow of main.py *)

HasRun(node) == \E i \in Idx(run.trace) : run.trace[i] = node

RunEnded == run.node \in {"END", "raised"}

\* a sentinel came back from the Aggregator or from the Trend Engine
SentinelReturned ==
    \/ HasRun("profile_pandas") /\ pandas_analysis.kind = "summary"
    \/ HasRun("trend_pandas") /\ trend_analysis.kind = "trend_summary"

\* C23: an 'insufficient data' sentinel of the Aggregator or the Trend Engine
\* is never turned into an exception: the narrative step returns the
\* sentinel's message unchanged without calling the text-generation service,
\* and the remaining stages of the run still run, so a run in which a sentinel
\* came back ends at END with every node run.
C23_SentinelNotFatal ==
    /\ (HasRun("profile_llm") /\ pandas_analysis.kind = "summary") =>
          /\ run.state["profile_summary"] =
                "This user has no spending (debit) transactions to analyze."
          /\ "profile_llm" \notin run.calls
    /\ (HasRun("trend_llm") /\ trend_analysis.kind = "trend_summary") =>
          /\ run.state["trend_summary"] =
                "Not enough data for a month-on-month comparison."
          /\ "trend_llm" \notin run.calls
    /\ (RunEnded /\ SentinelReturned) =>
          /\ run.node = "END"
          /\ run.trace = NodeOrder

\* the same on the ledgers whose timestamps all parse
SentinelWithParsedDates ==
    to_datetime_raises(ledger) \/ C23_SentinelNotFatal

----------------------------------------------------------------------------
(* analyze_all_users_data of main_refactored.py *)

\* the rows the equality test of the loop selects for a user id
SliceOf(t, u) == mask_rows(t, user_mask(t, u), 1)

\* what the analysis of a slice can return, whatever the service does
ResultsOfSlice(own) ==
    {analyze_single_user(own, service) : service \in LlmReplies \cup {LlmFailure}}

UserIdValues(t) == {t[i].user_id : i \in Idx(t)}

\* the rows of the table whose user_id cell holds the value
RowsOfUser(t, u) == SelectSeq(t, LAMBDA r : r.user_id = u)

\* C25: analyze_all_users_data returns {} for no table or an empty one;
\* otherwise the result has one entry per distinct user_id value, each with
\* the keys profile_summary, pandas_analysis and transactions_df, the entry's
\* transactions_df holds exactly the rows of that user, and a user whose
\* slice is empty gets 'No data available for this user.' without the
\* workflow being invoked.
C25_OneEntryPerUser ==
    all_users.status = "returned" =>
        /\ (all_users.is_none \/ all_users.input = <<>>) =>
              DOMAIN all_users.results = {}
        /\ DOMAIN all_users.results = UserIdValues(all_users.input)
        /\ \A u \in DOMAIN all_users.results :
              LET entry == all_users.results[u]
              IN  /\ DOMAIN entry = {"profile_summary", "pandas_analysis", "transactions_df"}
                  /\ Len(entry.transactions_df) = Len(RowsOfUser(all_users.input, u))
                  /\ \A i \in Idx(entry.transactions_df) :
                        [entry.transactions_df[i] EXCEPT !.amount = 0] =
                            [RowsOfUser(all_users.input, u)[i] EXCEPT !.amount = 0]
                  /\ entry.transactions_df = <<>> =>
                        /\ entry.profile_summary = "No data available for this user."
                        /\ u \notin all_users.invoked

\* the same on the tables in which every user_id cell is filled
OneEntryPerNamedUser ==
    (\E i \in Idx(all_users.input) : all_users.input[i].user_id.k = "nan")
        \/ C25_OneEntryPerUser

\* the state keys a node reads have been written when the node is next
ReadsWritten ==
    /\ run.node = "profile_llm" => pandas_analysis # NotRun
    /\ run.node = "trend_llm" => trend_analysis # NotRun
    /\ run.node = "budget_llm" =>
          /\ budget_baseline # NotRun
          /\ "profile_summary" \in DOMAIN run.state
    /\ run.node = "generate_report" =>
          {"profile_summary", "trend_summary", "budget_summary"} \subseteq DOMAIN run.state

\* the nodes that have run are the first ones of the fixed order, each once
RunsInOrder == run.trace = SubSeq(NodeOrder, 1, Len(run.trace))

\* the run is over, every node has run once and final_report holds the
\* profile, trend and budget texts in that order
ReportAssembled ==
    /\ run.node = "END"
    /\ run.trace = NodeOrder
    /\ "final_report" \in DOMAIN run.state
    /\ run.state["final_report"] =
          <<run.state["profile_summary"], run.state["trend_summary"],
            run.state["budget_summary"]>>

\* C26: in the full per-user workflow every node runs exactly once, in the
\* order profile_pandas, profile_llm, trend_pandas, trend_llm, budget_pandas,
\* budget_llm, generate_report; each node reads only state keys written
\* before it; and the run always ends with final_report set to the profile,
\* trend and budget texts in that order.
C26_WorkflowOrder ==
    /\ RunsInOrder
    /\ ReadsWritten
    /\ RunEnded => ReportAssembled

\* the order and the reads alone, in every run
OrderAndReads == RunsInOrder /\ ReadsWritten

\* a run ends without a report exactly when a pandas stage raises on the
\* user's rows
EndsWithReportUnlessRaised ==
    RunEnded =>
        IF app_invoke(ledger).kind = "raised"
        THEN run.node = "raised"
        ELSE ReportAssembled

----------------------------------------------------------------------------
(* In-place column writes on the shared table *)

\* each stage run once on a fresh copy of the user's rows as they were read
FreshProfile == analyze_transactions_with_pandas(coerce_amount(ledger))

FreshTrend ==
    IF to_datetime_raises(ledger) THEN Raised
    ELSE analyze_trends_with_pandas(prepare_time(ledger))

FreshBaseline ==
    IF to_datetime_raises(ledger) THEN Raised
    ELSE create_budget_baseline_with_pandas(prepare_time(ledger))

\* C27: the in-place column writes of the stages are idempotent: whatever
\* stages have already run on the shared table, in any order and any number
\* of times, each stage's latest result (category sums, totals, trend values,
\* baseline values) is the one it gives on a fresh copy of the original rows.
C27_InPlaceWritesIdempotent ==
    /\ pandas_analysis # NotRun => pandas_analysis = FreshProfile
    /\ trend_analysis # NotRun => trend_analysis = FreshTrend
    /\ budget_baseline # NotRun => budget_baseline = FreshBaseline

\* the three stages have run on one table whose amount and timestamp cells
\* they rewrote, and the comparison and the averages were computed
C27_Witness ==
    /\ pandas_analysis.kind = "analysis"
    /\ trend_analysis.kind = "analysis"
    /\ budget_baseline.kind = "baseline"
    /\ df # ledger
    /\ df = prepare_time(ledger)

\* the key a narrative node writes and the string it returns when the
\* text-generation call raises
SummaryKey(node) ==
    CASE node = "profile_llm" -> "profile_summary"
      [] node = "trend_llm" -> "trend_summary"
      [] node = "budget_llm" -> "budget_summary"

ErrorString(node) ==
    CASE node = "profile_llm" -> "An error occurred with the OpenAI API"
      [] node = "trend_llm" ->
            "An error occurred with the OpenAI API during trend summarization"
      [] node = "budget_llm" ->
            "An error occurred with the OpenAI API during budget planning"

\* the section of the final report a narrative node's text goes to
Section(node) ==
    CASE node = "profile_llm" -> 1
      [] node = "trend_llm" -> 2
      [] node = "budget_llm" -> 3

\* a failed call left the error string under the node's key and the run went
\* on to the next node
FailureReturnsString ==
    \A node \in run.failed :
        /\ HasRun(node)
        /\ run.state[SummaryKey(node)] = ErrorString(node)

\* C28: a failure of the text-generation call in a narrative step never
\* raises out of the step: the step returns an error string as its summary,
\* the workflow continues through the remaining nodes, and the final report
\* is still produced with that string in the corresponding section.
C28_LlmFailureContained ==
    /\ FailureReturnsString
    /\ (RunEnded /\ run.failed # {}) =>
          /\ ReportAssembled
          /\ \A node \in run.failed :
                run.state["final_report"][Section(node)] = ErrorString(node)

\* the same on the ledgers on which no pandas stage raises
FailureContainedWhenNothingRaises ==
    app_invoke(ledger).kind = "raised" \/ C28_LlmFailureContained

\* all three calls failed and the report holds the three error strings
AllCallsFailed ==
    /\ run.node = "END"
    /\ run.failed = {"profile_llm", "trend_llm", "budget_llm"}

----------------------------------------------------------------------------
(* load_transactions of utils/data_loader.py *)

\* the path ends with the suffix, letter case aside
EndsWith(p, suffix) ==
    /\ Len(p) >= Len(suffix)
    /\ str_lower(SubSeq(p, Len(p) - Len(suffix) + 1, Len(p))) = suffix

\* the last component of the path has a name before the suffix
NamedFile(p, suffix) ==
    /\ EndsWith(p, suffix)
    /\ \E i \in 1..(Len(p) - Len(suffix)) :
          /\ p[i] \notin {"/", "."}
          /\ \A j \in i..(Len(p) - Len(suffix)) : p[j] # "/"

SupportedExtension ==
    /\ ~file.no_path
    /\ \E suffix \in {s_xlsx, s_xls, s_csv} : NamedFile(file.file_path, suffix)

\* C29: load_transactions never raises: it returns None when the extension is
\* not .xlsx, .xls or .csv (letter case aside), when the file is missing, when
\* reading fails, or when the table has no user_id column, and it returns the
\* table only when the file was read and has a user_id column.
C29_LoadNeverRaises ==
    load # "unread" =>
        /\ load \in {"None", "table"}
        /\ load = "table" <=>
              /\ SupportedExtension
              /\ file.found
              /\ file.reads
              /\ "user_id" \in columns

\* a file with an upper-case extension was read and returned
C29_Witness ==
    /\ load = "table"
    /\ file.file_path = <<"a", ".", "X", "L", "S", "X">>

\* a file that does not read was answered with None
LoadFailureAnswered ==
    /\ load = "None"
    /\ SupportedExtension
    /\ ~file.reads

----------------------------------------------------------------------------
(* The Streamlit session *)

SessionKeys == {"analysis_results", "processed_data", "budget_plans"}

\* C30: after any sequence of 'Analyze' and 'Generate Budget Plan', every key
\* of budget_plans is a user of the current analysis_results: an analysis
\* with results replaces analysis_results and processed_data together and
\* empties budget_plans, an analysis that fails or has no results leaves the
\* three keys as they were.
C30_PlansOfCurrentUsers ==
    /\ DOMAIN session.budget_plans \subseteq DOMAIN session.analysis_results
    /\ session.event.kind = "analysis" =>
          LET loaded == session.event.loaded
          IN  IF ~loaded.results_none /\ DOMAIN loaded.results # {}
              THEN /\ session.analysis_results = loaded.results
                   /\ session.processed_data = loaded.data
                   /\ DOMAIN session.budget_plans = {}
              ELSE \A k \in SessionKeys : session[k] = session.event.before[k]

\* an analysis of one user's file came after a plan was generated for a user
\* of the earlier file who is not in the new one
C30_Witness ==
    /\ session.event.kind = "analysis"
    /\ DOMAIN session.event.before.budget_plans # {}
    /\ ~(DOMAIN session.event.before.budget_plans \subseteq DOMAIN session.analysis_results)
    /\ session.analysis_results # session.event.before.analysis_results

\* a failed analysis came after a plan was generated
FailedAnalysisKeepsPlans ==
    /\ session.event.kind = "analysis"
    /\ session.event.loaded.results_none
    /\ DOMAIN session.budget_plans # {}

====
